---- MODULE Spec2Model ----
(***************************************************************************)
(* Model of the wasmgame contract (src/src/contract.rs, src/src/state.rs): *)
(* a staged lottery + airdrop settlement contract.  Every entry point of   *)
(* the contract is an operator that maps the persistent store, the block   *)
(* and the call's inputs to a result [err, store, msgs]; the host applies  *)
(* the returned store only when err is empty (a failed call is reverted).  *)
(*                                                                         *)
(* Conventions                                                             *)
(*   Option<T>      <<>> is None, <<v>> is Some(v)                         *)
(*   String/Addr    sequence of ASCII codes ("a" is <<97>>)                *)
(*   [u8; 32]       a digest, the sequence of naturals Sha256 returns      *)
(*   hex string     [enc, bytes]: enc = "hex" decodes to bytes, any other  *)
(*                  enc is a malformed string                              *)
(*   Uint128        a natural; + never overflows within the bounds,        *)
(*                  - below zero and division by zero panic                *)
(***************************************************************************)
EXTENDS Integers, Sequences, FiniteSets, TLC

\* The last block height the clock reaches.
MaxHeight == 4

\* Cap on the running sums of emitted transfers (kept in the audit runs only).
MaxPaid == 40
\* Longest sibling path of the proof trees.
MaxProofLen == 2

None == <<>>
Some(v) == <<v>>
IsSome(o) == o /= <<>>
Unwrap(o) == o[1]

(***************************************************************************)
(* Identities.  "a" and "a1": one address is a prefix of the other and the *)
(* rest is a digit, the case in which the separator-less leaf preimage     *)
(* matters.                                                                *)
(***************************************************************************)
Addr1 == <<97>>
Addr2 == <<97, 49>>
OwnerAddr == <<111>>
TokenAddr == "token"
Participants == {Addr1, Addr2}
Addrs == {Addr1, Addr2, OwnerAddr}
Ujuno == "ujuno"
Ubtc == "ubtc"
TicketPriceAmount == 10
Bins == 10

(***************************************************************************)
(* cw_utils::Scheduled and cw_utils::Duration as the contract uses them.   *)
(***************************************************************************)
AtHeight(n) == [kind |-> "height", at |-> n]
AtTime(n) == [kind |-> "time", at |-> n]
DHeight(n) == [kind |-> "height", len |-> n]
DTime(n) == [kind |-> "time", len |-> n]
MkStage(s, d) == [start |-> s, duration |-> d]

\* Scheduled::is_triggered
is_triggered(s, blk) ==
  IF s.kind = "height" THEN blk.height >= s.at ELSE blk.time >= s.at

\* Scheduled + Duration: an error when one is a height and the other a time.
ScheduledAdd(s, d) ==
  IF s.kind = d.kind
  THEN [err |-> "", val |-> [kind |-> s.kind, at |-> s.at + d.len]]
  ELSE [err |-> "Std:CannotAddHeightAndTime", val |-> s]

\* Scheduled's partial order: a height and a time are incomparable, so `>`
\* between them is false.
ScheduledGt(a, b) == a.kind = b.kind /\ a.at > b.at

(***************************************************************************)
(* Bytes, hashing, hex.                                                    *)
(***************************************************************************)
RECURSIVE Decimal(_)
\* Display of an unsigned integer: its decimal digits in ASCII.
Decimal(n) ==
  IF n < 10 THEN <<48 + n>> ELSE Decimal(n \div 10) \o <<48 + (n % 10)>>

\* format!("{}{}", sender, value): plain concatenation, no separator.
LeafPreimage(addr, value) == addr \o Decimal(value)

\* SHA-256 as an ideal (collision-free) hash: the digest of a byte string is
\* the length-prefixed string itself, so distinct inputs give distinct
\* digests and the concatenation of two digests splits in one way only.
Sha256(bytes) == <<Len(bytes)>> \o bytes

RECURSIVE LexLess(_, _)
\* Lexicographic order on byte sequences (Ord of [u8; 32]).
LexLess(a, b) ==
  IF b = <<>> THEN FALSE
  ELSE IF a = <<>> THEN TRUE
  ELSE IF Head(a) /= Head(b) THEN Head(a) < Head(b)
  ELSE LexLess(Tail(a), Tail(b))

\* A concatenation in argument order, without the sort.
UnsortedConcat(h, p) == h \o p

\* hashes.sort_unstable(); hashes.concat()
SortedConcat(h, p) == IF LexLess(p, h) THEN p \o h ELSE h \o p

Hex(bytes) == [enc |-> "hex", bytes |-> bytes]
BadHexChar == [enc |-> "badchar", bytes |-> <<>>]
BadHexLen == [enc |-> "badlen", bytes |-> <<>>]

\* A decoding that leaves the buffer as it is instead of failing.
hex_decode_lenient(h) == [err |-> "", bytes |-> h.bytes]

\* hex::decode_to_slice into a 32-byte buffer.
hex_decode_to_slice(h) ==
  IF h.enc = "hex" THEN [err |-> "", bytes |-> h.bytes]
  ELSE [err |-> "Hex", bytes |-> <<>>]

RECURSIVE merkle_fold(_, _)
\* proof.into_iter().try_fold(hash, |hash, p| ...): the first malformed
\* element aborts with the hex error.
merkle_fold(hash, proof) ==
  IF proof = <<>> THEN [err |-> "", hash |-> hash]
  ELSE LET d == hex_decode_to_slice(Head(proof))
       IN IF d.err /= "" THEN [err |-> d.err, hash |-> hash]
          ELSE merkle_fold(Sha256(SortedConcat(hash, d.bytes)), Tail(proof))

(***************************************************************************)
(* Persistent store (state.rs).  Items are Options, maps are functions     *)
(* from addresses to Options.                                              *)
(***************************************************************************)
VARIABLES
  block,        \* [height, time] of the current block
  store,        \* the contract's storage
  res,          \* the last call and its response: [op, err, msgs]
  scope,        \* which slice of the inputs this run draws from (fixed)
  paid_native,  \* native amount emitted so far by ClaimPrize and WithdrawPrize
  paid_token,   \* token amount emitted so far by ClaimAirdrop, ClaimPrize, WithdrawAirdrop
  airdrop_transfers,  \* per address, the transfers ClaimAirdrop has emitted to it
  prize_transfers,    \* per address, the ClaimPrize responses that paid it
  net_paid,     \* per address, ticket coins sent with Bids minus those Bid and RemoveBid sent back
  tree          \* a leaf, its sibling path and the root built over them (proof runs only)

vars == <<block, store, res, scope, paid_native, paid_token, airdrop_transfers, prize_transfers, net_paid, tree>>

EmptyStore ==
  [ contract_info |-> None,
    config |-> None,
    stage_bid |-> None,
    stage_claim_airdrop |-> None,
    stage_claim_prize |-> None,
    ticket_price |-> None,
    bins |-> None,
    bids |-> [a \in Addrs |-> None],
    merkle_root_airdrop |-> None,
    merkle_root_game |-> None,
    claimed_amount |-> None,
    claimed_prize |-> None,
    winners |-> None,
    total_ticket_prize |-> None,
    total_amount_airdrop |-> None,
    total_amount_game |-> None,
    claim_airdrop |-> [a \in Addrs |-> None],
    claim_prize |-> [a \in Addrs |-> None] ]

Ok(s, msgs) == [err |-> "", store |-> s, msgs |-> msgs]
Err(e, s) == [err |-> e, store |-> s, msgs |-> <<>>]

\* get_bank_transfer_to_msg
get_bank_transfer_to_msg(recipient, denom, amount) ==
  [kind |-> "bank", to |-> recipient, asset |-> denom, amount |-> amount]

\* A token transfer of one unit less than asked for.
get_cw20_transfer_to_msg_short(recipient, token_addr, amount) ==
  [kind |-> "cw20", to |-> recipient, asset |-> token_addr, amount |-> amount - 1]

\* get_cw20_transfer_to_msg: asset is the token contract's address.
get_cw20_transfer_to_msg(recipient, token_addr, amount) ==
  [kind |-> "cw20", to |-> recipient, asset |-> token_addr, amount |-> amount]

RECURSIVE get_amount_for_any_denom(_, _)
\* A sum of the sent coins that counts every denomination.
get_amount_for_any_denom(coins, denom) ==
  IF coins = <<>> THEN 0
  ELSE Head(coins).amount + get_amount_for_any_denom(Tail(coins), denom)

RECURSIVE get_amount_for_denom(_, _)
\* Sum of the sent coins of the given denomination.
get_amount_for_denom(coins, denom) ==
  IF coins = <<>> THEN 0
  ELSE (IF Head(coins).denom = denom THEN Head(coins).amount ELSE 0)
       + get_amount_for_denom(Tail(coins), denom)

\* A stage gate that still admits the instant start + duration.
check_if_valid_stage_inclusive_end(blk, stage, stage_name) ==
  IF ~is_triggered(stage.start, blk) THEN "StageNotStarted:" \o stage_name
  ELSE LET e == ScheduledAdd(stage.start, stage.duration)
       IN IF e.err /= "" THEN e.err
          ELSE IF e.val.kind = "height" /\ blk.height > e.val.at
            THEN "StageEnded:" \o stage_name
          ELSE IF e.val.kind = "time" /\ blk.time > e.val.at
            THEN "StageEnded:" \o stage_name
          ELSE ""

\* The block's height or time, whichever the Scheduled is expressed in.
NowAt(s) == IF s.kind = "height" THEN block.height ELSE block.time

\* check_if_valid_stage: "" when the stage is active, else the error.
check_if_valid_stage(blk, stage, stage_name) ==
  IF ~is_triggered(stage.start, blk) THEN "StageNotStarted:" \o stage_name
  ELSE LET e == ScheduledAdd(stage.start, stage.duration)
       IN IF e.err /= "" THEN e.err
          ELSE IF is_triggered(e.val, blk) THEN "StageEnded:" \o stage_name
          ELSE ""

(***************************************************************************)
(* instantiate                                                             *)
(***************************************************************************)
\* An instantiate that compares the stages before it looks at the clock.
instantiate_overlap_first(sender, msg) ==
  LET s0 == [store EXCEPT !.contract_info = Some("crates.io:cw20-merkle-airdrop")]
      owner == IF IsSome(msg.owner) THEN Unwrap(msg.owner) ELSE sender
      bid_end == ScheduledAdd(msg.stage_bid.start, msg.stage_bid.duration)
      air_end == ScheduledAdd(msg.stage_claim_airdrop.start,
                              msg.stage_claim_airdrop.duration)
  IN IF bid_end.err /= "" THEN Err(bid_end.err, s0)
     ELSE IF air_end.err /= "" THEN Err(air_end.err, s0)
     ELSE IF ScheduledGt(bid_end.val, msg.stage_claim_airdrop.start)
       THEN Err("StagesOverlap:bid,Claim airdrop", s0)
     ELSE IF ScheduledGt(air_end.val, msg.stage_claim_prize.start)
       THEN Err("StagesOverlap:claim aidrop,Claim prize", s0)
     ELSE IF is_triggered(msg.stage_bid.start, block)
       THEN Err("BidStartPassed", s0)
     ELSE Ok([s0 EXCEPT
                !.config = Some([owner |-> Some(owner),
                                 cw20_token_address |-> msg.cw20_token_address]),
                !.stage_bid = Some(msg.stage_bid),
                !.stage_claim_airdrop = Some(msg.stage_claim_airdrop),
                !.stage_claim_prize = Some(msg.stage_claim_prize),
                !.ticket_price = Some(msg.ticket_price),
                !.bins = Some(msg.bins),
                !.winners = Some(0),
                !.total_ticket_prize = Some(0)], <<>>)

instantiate(sender, msg) ==
  LET s0 == [store EXCEPT !.contract_info = Some("crates.io:cw20-merkle-airdrop")]
      owner == IF IsSome(msg.owner) THEN Unwrap(msg.owner) ELSE sender
      bid_end == ScheduledAdd(msg.stage_bid.start, msg.stage_bid.duration)
      air_end == ScheduledAdd(msg.stage_claim_airdrop.start,
                              msg.stage_claim_airdrop.duration)
  IN IF bid_end.err /= "" THEN Err(bid_end.err, s0)
     ELSE IF air_end.err /= "" THEN Err(air_end.err, s0)
     ELSE IF is_triggered(msg.stage_bid.start, block)
       THEN Err("BidStartPassed", s0)
     ELSE IF ScheduledGt(bid_end.val, msg.stage_claim_airdrop.start)
       THEN Err("StagesOverlap:bid,Claim airdrop", s0)
     ELSE IF ScheduledGt(air_end.val, msg.stage_claim_prize.start)
       THEN Err("StagesOverlap:claim aidrop,Claim prize", s0)
     ELSE Ok([s0 EXCEPT
                !.config = Some([owner |-> Some(owner),
                                 cw20_token_address |-> msg.cw20_token_address]),
                !.stage_bid = Some(msg.stage_bid),
                !.stage_claim_airdrop = Some(msg.stage_claim_airdrop),
                !.stage_claim_prize = Some(msg.stage_claim_prize),
                !.ticket_price = Some(msg.ticket_price),
                !.bins = Some(msg.bins),
                !.winners = Some(0),
                !.total_ticket_prize = Some(0)], <<>>)

(***************************************************************************)
(* execute: owner check shared by the admin handlers                       *)
(***************************************************************************)
\* An owner check that lets every caller in when no owner is stored.
is_owner_or_unowned(sender) ==
  /\ IsSome(store.config)
  /\ (IsSome(Unwrap(store.config).owner)
        => Unwrap(Unwrap(store.config).owner) = sender)

\* An owner check against the address that instantiated the contract.
is_first_owner(sender) ==
  /\ IsSome(store.config)
  /\ sender = OwnerAddr

\* cfg.owner.ok_or(Unauthorized)?; if info.sender != owner { Unauthorized }
is_owner(sender) ==
  /\ IsSome(store.config)
  /\ IsSome(Unwrap(store.config).owner)
  /\ Unwrap(Unwrap(store.config).owner) = sender

\* An UpdateConfig that stores a fresh config, dropping the token address.
execute_update_config_rebuilding(sender, new_owner) ==
  IF ~IsSome(store.config) THEN Err("Std:NotFound", store)
  ELSE IF ~is_owner(sender) THEN Err("Unauthorized", store)
  ELSE Ok([store EXCEPT !.config =
             Some([owner |-> new_owner, cw20_token_address |-> ""])], <<>>)

execute_update_config(sender, new_owner) ==
  IF ~IsSome(store.config) THEN Err("Std:NotFound", store)
  ELSE IF ~is_owner(sender) THEN Err("Unauthorized", store)
  ELSE Ok([store EXCEPT !.config =
             Some([Unwrap(store.config) EXCEPT !.owner = new_owner])], <<>>)

(***************************************************************************)
(* Bid ledger                                                              *)
(***************************************************************************)
\* A Bid that keeps whatever was sent above the ticket price.
execute_bid_keeping_change(sender, funds, bin) ==
  IF ~IsSome(store.stage_bid) THEN Err("Std:NotFound", store)
  ELSE
  LET stage_err == check_if_valid_stage(block, Unwrap(store.stage_bid), "bid")
      ticket_price == Unwrap(store.ticket_price)
      funds_sent == get_amount_for_denom(funds, ticket_price.denom)
      bins == Unwrap(store.bins)
  IN IF stage_err /= "" THEN Err(stage_err, store)
     ELSE IF IsSome(store.bids[sender]) THEN Err("CannotBidMoreThanOnce", store)
     ELSE IF funds_sent < ticket_price.amount THEN Err("TicketPriceNotPaid", store)
     ELSE IF bin > bins THEN Err("BinDoesNotExist", store)
     ELSE Ok([store EXCEPT
                !.bids[sender] = Some(bin),
                !.total_ticket_prize =
                   Some(Unwrap(store.total_ticket_prize) + ticket_price.amount)],
             <<>>)

\* A Bid that does not look for an existing bid of the sender.
execute_bid_without_has_check(sender, funds, bin) ==
  IF ~IsSome(store.stage_bid) THEN Err("Std:NotFound", store)
  ELSE
  LET stage_err == check_if_valid_stage(block, Unwrap(store.stage_bid), "bid")
      ticket_price == Unwrap(store.ticket_price)
      funds_sent == get_amount_for_denom(funds, ticket_price.denom)
      bins == Unwrap(store.bins)
  IN IF stage_err /= "" THEN Err(stage_err, store)
     ELSE IF funds_sent < ticket_price.amount THEN Err("TicketPriceNotPaid", store)
     ELSE IF bin > bins THEN Err("BinDoesNotExist", store)
     ELSE Ok([store EXCEPT
                !.bids[sender] = Some(bin),
                !.total_ticket_prize =
                   Some(Unwrap(store.total_ticket_prize) + ticket_price.amount)],
             <<>>)

\* A Bid that records the bin without adding the ticket to the pool.
execute_bid_not_pooling(sender, funds, bin) ==
  IF ~IsSome(store.stage_bid) THEN Err("Std:NotFound", store)
  ELSE
  LET stage_err == check_if_valid_stage(block, Unwrap(store.stage_bid), "bid")
      ticket_price == Unwrap(store.ticket_price)
      funds_sent == get_amount_for_denom(funds, ticket_price.denom)
      bins == Unwrap(store.bins)
      transfer_msg ==
        IF funds_sent > ticket_price.amount
        THEN <<get_bank_transfer_to_msg(sender, ticket_price.denom,
                                        funds_sent - ticket_price.amount)>>
        ELSE <<>>
  IN IF stage_err /= "" THEN Err(stage_err, store)
     ELSE IF IsSome(store.bids[sender]) THEN Err("CannotBidMoreThanOnce", store)
     ELSE IF funds_sent < ticket_price.amount THEN Err("TicketPriceNotPaid", store)
     ELSE IF bin > bins THEN Err("BinDoesNotExist", store)
     ELSE Ok([store EXCEPT !.bids[sender] = Some(bin)], transfer_msg)

execute_bid(sender, funds, bin) ==
  IF ~IsSome(store.stage_bid) THEN Err("Std:NotFound", store)
  ELSE
  LET stage_err == check_if_valid_stage(block, Unwrap(store.stage_bid), "bid")
      ticket_price == Unwrap(store.ticket_price)
      funds_sent == get_amount_for_denom(funds, ticket_price.denom)
      bins == Unwrap(store.bins)
      transfer_msg ==
        IF funds_sent > ticket_price.amount
        THEN <<get_bank_transfer_to_msg(sender, ticket_price.denom,
                                        funds_sent - ticket_price.amount)>>
        ELSE <<>>
  IN IF stage_err /= "" THEN Err(stage_err, store)
     ELSE IF IsSome(store.bids[sender]) THEN Err("CannotBidMoreThanOnce", store)
     ELSE IF funds_sent < ticket_price.amount THEN Err("TicketPriceNotPaid", store)
     ELSE IF bin > bins THEN Err("BinDoesNotExist", store)
     ELSE Ok([store EXCEPT
                !.bids[sender] = Some(bin),
                !.total_ticket_prize =
                   Some(Unwrap(store.total_ticket_prize) + ticket_price.amount)],
             transfer_msg)

\* A ChangeBid that charges a further ticket to the pool.
execute_change_bid_charging(sender, bin) ==
  IF ~IsSome(store.stage_bid) THEN Err("Std:NotFound", store)
  ELSE
  LET stage_err == check_if_valid_stage(block, Unwrap(store.stage_bid), "bid")
  IN IF stage_err /= "" THEN Err(stage_err, store)
     ELSE IF ~IsSome(store.bids[sender]) THEN Err("BidNotPresent", store)
     ELSE Ok([store EXCEPT
                !.bids[sender] = Some(bin),
                !.total_ticket_prize =
                   Some(Unwrap(store.total_ticket_prize)
                        + Unwrap(store.ticket_price).amount)], <<>>)

\* A ChangeBid that writes the bin before it looks for an existing bid.
execute_change_bid_write_first(sender, bin) ==
  IF ~IsSome(store.stage_bid) THEN Err("Std:NotFound", store)
  ELSE
  LET stage_err == check_if_valid_stage(block, Unwrap(store.stage_bid), "bid")
      s1 == [store EXCEPT !.bids[sender] = Some(bin)]
  IN IF stage_err /= "" THEN Err(stage_err, store)
     ELSE IF ~IsSome(store.bids[sender]) THEN Err("BidNotPresent", s1)
     ELSE Ok(s1, <<>>)

\* A ChangeBid that moves every live bid to the new bin.
execute_change_bid_of_all(sender, bin) ==
  IF ~IsSome(store.stage_bid) THEN Err("Std:NotFound", store)
  ELSE
  LET stage_err == check_if_valid_stage(block, Unwrap(store.stage_bid), "bid")
  IN IF stage_err /= "" THEN Err(stage_err, store)
     ELSE IF ~IsSome(store.bids[sender]) THEN Err("BidNotPresent", store)
     ELSE Ok([store EXCEPT !.bids =
                [a \in Addrs |-> IF IsSome(store.bids[a]) THEN Some(bin) ELSE None]],
             <<>>)

execute_change_bid(sender, bin) ==
  IF ~IsSome(store.stage_bid) THEN Err("Std:NotFound", store)
  ELSE
  LET stage_err == check_if_valid_stage(block, Unwrap(store.stage_bid), "bid")
  IN IF stage_err /= "" THEN Err(stage_err, store)
     ELSE IF ~IsSome(store.bids[sender]) THEN Err("BidNotPresent", store)
     ELSE Ok([store EXCEPT !.bids[sender] = Some(bin)], <<>>)

\* A RemoveBid that refunds the ticket but leaves it in the pool.
execute_remove_bid_keeping_pool(sender) ==
  IF ~IsSome(store.stage_bid) THEN Err("Std:NotFound", store)
  ELSE
  LET stage_err == check_if_valid_stage(block, Unwrap(store.stage_bid), "bid")
      ticket_price == Unwrap(store.ticket_price)
  IN IF stage_err /= "" THEN Err(stage_err, store)
     ELSE IF ~IsSome(store.bids[sender]) THEN Err("BidNotPresent", store)
     ELSE Ok([store EXCEPT !.bids[sender] = None],
             <<get_bank_transfer_to_msg(sender, ticket_price.denom,
                                        ticket_price.amount)>>)

\* A RemoveBid that takes the caller out of the game: the prize record goes too.
execute_remove_bid_leaving_game(sender) ==
  IF ~IsSome(store.stage_bid) THEN Err("Std:NotFound", store)
  ELSE
  LET stage_err == check_if_valid_stage(block, Unwrap(store.stage_bid), "bid")
      ticket_price == Unwrap(store.ticket_price)
      s1 == [store EXCEPT !.bids[sender] = None, !.claim_prize[sender] = None]
  IN IF stage_err /= "" THEN Err(stage_err, store)
     ELSE IF ~IsSome(store.bids[sender]) THEN Err("BidNotPresent", store)
     \* Uint128 -= panics below zero, after the bid has been removed.
     ELSE IF Unwrap(store.total_ticket_prize) < ticket_price.amount
       THEN Err("Panic", s1)
     ELSE Ok([s1 EXCEPT !.total_ticket_prize =
                Some(Unwrap(store.total_ticket_prize) - ticket_price.amount)],
             <<get_bank_transfer_to_msg(sender, ticket_price.denom,
                                        ticket_price.amount)>>)

execute_remove_bid(sender) ==
  IF ~IsSome(store.stage_bid) THEN Err("Std:NotFound", store)
  ELSE
  LET stage_err == check_if_valid_stage(block, Unwrap(store.stage_bid), "bid")
      ticket_price == Unwrap(store.ticket_price)
      s1 == [store EXCEPT !.bids[sender] = None]
  IN IF stage_err /= "" THEN Err(stage_err, store)
     ELSE IF ~IsSome(store.bids[sender]) THEN Err("BidNotPresent", store)
     \* Uint128 -= panics below zero, after the bid has been removed.
     ELSE IF Unwrap(store.total_ticket_prize) < ticket_price.amount
       THEN Err("Panic", s1)
     ELSE Ok([s1 EXCEPT !.total_ticket_prize =
                Some(Unwrap(store.total_ticket_prize) - ticket_price.amount)],
             <<get_bank_transfer_to_msg(sender, ticket_price.denom,
                                        ticket_price.amount)>>)

(***************************************************************************)
(* Merkle roots and claims                                                 *)
(***************************************************************************)
\* A registration that leaves the two claim counters as they are.
execute_register_merkle_roots_keeping_counters(sender, merkle_root_airdrop, total_amount_airdrop, merkle_root_game, total_amount_game) ==
  IF ~IsSome(store.config) THEN Err("Std:NotFound", store)
  ELSE IF ~is_owner(sender) THEN Err("Unauthorized", store)
  ELSE IF hex_decode_to_slice(merkle_root_airdrop).err /= ""
    THEN Err(hex_decode_to_slice(merkle_root_airdrop).err, store)
  ELSE IF hex_decode_to_slice(merkle_root_game).err /= ""
    THEN Err(hex_decode_to_slice(merkle_root_game).err, store)
  ELSE
  Ok([store EXCEPT
        !.merkle_root_airdrop = Some(merkle_root_airdrop),
        !.merkle_root_game = Some(merkle_root_game),
        !.total_amount_airdrop =
           Some(IF IsSome(total_amount_airdrop) THEN Unwrap(total_amount_airdrop) ELSE 0),
        !.total_amount_game =
           Some(IF IsSome(total_amount_game) THEN Unwrap(total_amount_game) ELSE 0),
        !.claimed_amount = IF IsSome(store.claimed_amount) THEN store.claimed_amount ELSE Some(0),
        !.claimed_prize = IF IsSome(store.claimed_prize) THEN store.claimed_prize ELSE Some(0)],
     <<>>)

\* A registration that opens a new round: the airdrop-claim records are cleared.
execute_register_merkle_roots_new_round(sender, merkle_root_airdrop, total_amount_airdrop, merkle_root_game, total_amount_game) ==
  IF ~IsSome(store.config) THEN Err("Std:NotFound", store)
  ELSE IF ~is_owner(sender) THEN Err("Unauthorized", store)
  ELSE IF hex_decode_to_slice(merkle_root_airdrop).err /= ""
    THEN Err(hex_decode_to_slice(merkle_root_airdrop).err, store)
  ELSE IF hex_decode_to_slice(merkle_root_game).err /= ""
    THEN Err(hex_decode_to_slice(merkle_root_game).err, store)
  ELSE
  LET amount_airdrop ==
        IF IsSome(total_amount_airdrop) THEN Unwrap(total_amount_airdrop) ELSE 0
      amount_game ==
        IF IsSome(total_amount_game) THEN Unwrap(total_amount_game) ELSE 0
  IN Ok([store EXCEPT
           !.merkle_root_airdrop = Some(merkle_root_airdrop),
           !.merkle_root_game = Some(merkle_root_game),
           !.total_amount_airdrop = Some(amount_airdrop),
           !.total_amount_game = Some(amount_game),
           !.claimed_amount = Some(0),
           !.claimed_prize = Some(0),
           !.claim_airdrop = [a \in Addrs |-> None]], <<>>)

execute_register_merkle_roots(sender, merkle_root_airdrop, total_amount_airdrop, merkle_root_game, total_amount_game) ==
  IF ~IsSome(store.config) THEN Err("Std:NotFound", store)
  ELSE IF ~is_owner(sender) THEN Err("Unauthorized", store)
  ELSE IF hex_decode_to_slice(merkle_root_airdrop).err /= ""
    THEN Err(hex_decode_to_slice(merkle_root_airdrop).err, store)
  ELSE IF hex_decode_to_slice(merkle_root_game).err /= ""
    THEN Err(hex_decode_to_slice(merkle_root_game).err, store)
  ELSE
  LET amount_airdrop ==
        IF IsSome(total_amount_airdrop) THEN Unwrap(total_amount_airdrop) ELSE 0
      amount_game ==
        IF IsSome(total_amount_game) THEN Unwrap(total_amount_game) ELSE 0
  IN Ok([store EXCEPT
           !.merkle_root_airdrop = Some(merkle_root_airdrop),
           !.merkle_root_game = Some(merkle_root_game),
           !.total_amount_airdrop = Some(amount_airdrop),
           !.total_amount_game = Some(amount_game),
           !.claimed_amount = Some(0),
           !.claimed_prize = Some(0)], <<>>)

\* An airdrop hash whose leaf is built from the sender alone.
airdrop_hash_ignoring_amount(sender, amount, proof_airdrop) ==
  merkle_fold(Sha256(LeafPreimage(sender, IF sender = Addr1 THEN 12 ELSE 5)),
              proof_airdrop)

\* The hash the airdrop proof folds to for (sender, amount).
airdrop_hash(sender, amount, proof_airdrop) ==
  merkle_fold(Sha256(LeafPreimage(sender, amount)), proof_airdrop)

\* A game hash whose leaf is built from the highest bin, not the stored one.
game_hash_of_fixed_bin(sender, sender_bid, proof_game) ==
  merkle_fold(Sha256(LeafPreimage(sender, Bins)), proof_game)

\* A game hash that reports a proof that does not reach the game root as an
\* error.
game_hash_or_error(sender, sender_bid, proof_game) ==
  LET h == merkle_fold(Sha256(LeafPreimage(sender, sender_bid)), proof_game)
      root == hex_decode_to_slice(Unwrap(store.merkle_root_game))
  IN IF h.err = "" /\ h.hash /= root.bytes
     THEN [err |-> "VerificationFailed:game", hash |-> h.hash]
     ELSE h

\* The hash the game proof folds to for (sender, the bin stored for sender).
game_hash(sender, sender_bid, proof_game) ==
  merkle_fold(Sha256(LeafPreimage(sender, sender_bid)), proof_game)

\* A ClaimAirdrop that verifies the airdrop proof before it looks at the
\* sender's claim record.
execute_claim_airdrop_verify_first(sender, amount, proof_airdrop, proof_game) ==
  IF ~IsSome(store.stage_claim_airdrop) THEN Err("Std:NotFound", store)
  ELSE
  LET stage_err == check_if_valid_stage(block, Unwrap(store.stage_claim_airdrop),
                                        "claim airdrop")
      cfg == Unwrap(store.config)
      hash == airdrop_hash(sender, amount, proof_airdrop)
      root_airdrop == hex_decode_to_slice(Unwrap(store.merkle_root_airdrop))
      s2 == [store EXCEPT !.claim_airdrop[sender] = Some(TRUE)]
  IN IF stage_err /= "" THEN Err(stage_err, store)
     ELSE IF ~IsSome(store.merkle_root_airdrop) THEN Err("Std:NotFound", store)
     ELSE IF hash.err /= "" THEN Err(hash.err, store)
     ELSE IF root_airdrop.bytes /= hash.hash
       THEN Err("VerificationFailed:airdrop", store)
     ELSE IF IsSome(store.claim_airdrop[sender]) THEN Err("AlreadyClaimed", store)
     ELSE Ok([s2 EXCEPT !.claimed_amount = Some(Unwrap(store.claimed_amount) + amount)],
             <<get_cw20_transfer_to_msg(sender, cfg.cw20_token_address, amount)>>)

\* A ClaimAirdrop that records the winner without counting it.
execute_claim_airdrop_not_counting(sender, amount, proof_airdrop, proof_game) ==
  IF ~IsSome(store.stage_claim_airdrop) THEN Err("Std:NotFound", store)
  ELSE
  LET stage_err == check_if_valid_stage(block, Unwrap(store.stage_claim_airdrop),
                                        "claim airdrop")
      cfg == Unwrap(store.config)
      hash == airdrop_hash(sender, amount, proof_airdrop)
      root_airdrop == hex_decode_to_slice(Unwrap(store.merkle_root_airdrop))
      sender_bid == store.bids[sender]
      ghash == game_hash(sender, Unwrap(sender_bid), proof_game)
      root_game == hex_decode_to_slice(Unwrap(store.merkle_root_game))
      wins == IsSome(sender_bid) /\ root_game.bytes = ghash.hash
      s1 == IF wins
            THEN [store EXCEPT !.claim_prize[sender] = Some(FALSE)]
            ELSE store
      \* CLAIM_AIRDROP.save(true)
      s2 == [s1 EXCEPT !.claim_airdrop[sender] = Some(TRUE)]
  IN IF stage_err /= "" THEN Err(stage_err, store)
     ELSE IF IsSome(store.claim_airdrop[sender]) THEN Err("AlreadyClaimed", store)
     ELSE IF ~IsSome(store.merkle_root_airdrop) \/ ~IsSome(store.merkle_root_game)
       THEN Err("Std:NotFound", store)
     ELSE IF hash.err /= "" THEN Err(hash.err, store)
     ELSE IF root_airdrop.err /= "" THEN Err(root_airdrop.err, store)
     ELSE IF root_airdrop.bytes /= hash.hash
       THEN Err("VerificationFailed:airdrop", store)
     ELSE IF IsSome(sender_bid) /\ ghash.err /= "" THEN Err(ghash.err, store)
     ELSE IF IsSome(sender_bid) /\ root_game.err /= "" THEN Err(root_game.err, store)
     ELSE IF ~IsSome(store.claimed_amount) THEN Err("Std:NotFound", s2)
     ELSE Ok([s2 EXCEPT !.claimed_amount = Some(Unwrap(store.claimed_amount) + amount)],
             <<get_cw20_transfer_to_msg(sender, cfg.cw20_token_address, amount)>>)

\* A ClaimAirdrop that pays without verification while no root is registered.
execute_claim_airdrop_paying_unregistered(sender, amount, proof_airdrop, proof_game) ==
  IF ~IsSome(store.stage_claim_airdrop) THEN Err("Std:NotFound", store)
  ELSE
  LET stage_err == check_if_valid_stage(block, Unwrap(store.stage_claim_airdrop),
                                        "claim airdrop")
      cfg == Unwrap(store.config)
      hash == airdrop_hash(sender, amount, proof_airdrop)
      root_airdrop == hex_decode_to_slice(Unwrap(store.merkle_root_airdrop))
      sender_bid == store.bids[sender]
      ghash == game_hash(sender, Unwrap(sender_bid), proof_game)
      root_game == hex_decode_to_slice(Unwrap(store.merkle_root_game))
      wins == IsSome(sender_bid) /\ root_game.bytes = ghash.hash
      \* CLAIM_PRIZE.save(false); WINNERS += 1
      s1 == IF wins
            THEN [store EXCEPT !.claim_prize[sender] = Some(FALSE),
                               !.winners = Some(Unwrap(store.winners) + 1)]
            ELSE store
      \* CLAIM_AIRDROP.save(true)
      s2 == [s1 EXCEPT !.claim_airdrop[sender] = Some(TRUE)]
  IN IF stage_err /= "" THEN Err(stage_err, store)
     ELSE IF IsSome(store.claim_airdrop[sender]) THEN Err("AlreadyClaimed", store)
     ELSE IF ~IsSome(store.merkle_root_airdrop) \/ ~IsSome(store.merkle_root_game)
       THEN Ok([store EXCEPT !.claim_airdrop[sender] = Some(TRUE),
                             !.claimed_amount = Some(amount)],
               <<get_cw20_transfer_to_msg(sender, cfg.cw20_token_address, amount)>>)
     ELSE IF hash.err /= "" THEN Err(hash.err, store)
     ELSE IF root_airdrop.err /= "" THEN Err(root_airdrop.err, store)
     ELSE IF root_airdrop.bytes /= hash.hash
       THEN Err("VerificationFailed:airdrop", store)
     ELSE IF IsSome(sender_bid) /\ ghash.err /= "" THEN Err(ghash.err, store)
     ELSE IF IsSome(sender_bid) /\ root_game.err /= "" THEN Err(root_game.err, store)
     ELSE IF ~IsSome(store.claimed_amount) THEN Err("Std:NotFound", s2)
     ELSE Ok([s2 EXCEPT !.claimed_amount = Some(Unwrap(store.claimed_amount) + amount)],
             <<get_cw20_transfer_to_msg(sender, cfg.cw20_token_address, amount)>>)

execute_claim_airdrop(sender, amount, proof_airdrop, proof_game) ==
  IF ~IsSome(store.stage_claim_airdrop) THEN Err("Std:NotFound", store)
  ELSE
  LET stage_err == check_if_valid_stage(block, Unwrap(store.stage_claim_airdrop),
                                        "claim airdrop")
      cfg == Unwrap(store.config)
      hash == airdrop_hash(sender, amount, proof_airdrop)
      root_airdrop == hex_decode_to_slice(Unwrap(store.merkle_root_airdrop))
      sender_bid == store.bids[sender]
      ghash == game_hash(sender, Unwrap(sender_bid), proof_game)
      root_game == hex_decode_to_slice(Unwrap(store.merkle_root_game))
      wins == IsSome(sender_bid) /\ root_game.bytes = ghash.hash
      \* CLAIM_PRIZE.save(false); WINNERS += 1
      s1 == IF wins
            THEN [store EXCEPT !.claim_prize[sender] = Some(FALSE),
                               !.winners = Some(Unwrap(store.winners) + 1)]
            ELSE store
      \* CLAIM_AIRDROP.save(true)
      s2 == [s1 EXCEPT !.claim_airdrop[sender] = Some(TRUE)]
  IN IF stage_err /= "" THEN Err(stage_err, store)
     ELSE IF IsSome(store.claim_airdrop[sender]) THEN Err("AlreadyClaimed", store)
     ELSE IF ~IsSome(store.merkle_root_airdrop) \/ ~IsSome(store.merkle_root_game)
       THEN Err("Std:NotFound", store)
     ELSE IF hash.err /= "" THEN Err(hash.err, store)
     ELSE IF root_airdrop.err /= "" THEN Err(root_airdrop.err, store)
     ELSE IF root_airdrop.bytes /= hash.hash
       THEN Err("VerificationFailed:airdrop", store)
     ELSE IF IsSome(sender_bid) /\ ghash.err /= "" THEN Err(ghash.err, store)
     ELSE IF IsSome(sender_bid) /\ root_game.err /= "" THEN Err(root_game.err, store)
     ELSE IF ~IsSome(store.claimed_amount) THEN Err("Std:NotFound", s2)
     ELSE Ok([s2 EXCEPT !.claimed_amount = Some(Unwrap(store.claimed_amount) + amount)],
             <<get_cw20_transfer_to_msg(sender, cfg.cw20_token_address, amount)>>)

\* A share that rounds up instead of down.
checked_div_rounding_up(total, winners) == (total + winners - 1) \div winners

\* Uint128::checked_div for a non-zero divisor: integer division rounding down.
checked_div(total, winners) == total \div winners

\* A ClaimPrize that leaves the caller's prize record as it found it.
execute_claim_prize_not_marking_paid(sender) ==
  IF ~IsSome(store.stage_claim_prize) THEN Err("Std:NotFound", store)
  ELSE
  LET stage_err == check_if_valid_stage(block, Unwrap(store.stage_claim_prize),
                                        "claim prize")
      claimed == store.claim_prize[sender]
      cfg == Unwrap(store.config)
      winners == Unwrap(store.winners)
      ticket_price == Unwrap(store.ticket_price)
      sender_ticket_prize == checked_div(Unwrap(store.total_ticket_prize), winners)
      sender_airdrop_prize == checked_div(Unwrap(store.total_amount_game), winners)
  IN IF stage_err /= "" THEN Err(stage_err, store)
     ELSE IF IsSome(claimed) /\ Unwrap(claimed) THEN Err("AlreadyClaimed", store)
     ELSE IF ~IsSome(claimed) THEN Err("NoteEligible", store)
     ELSE IF ~IsSome(store.total_amount_game) THEN Err("Std:NotFound", store)
     ELSE IF winners = 0 THEN Err("Panic", store)
     ELSE Ok([store EXCEPT
                !.claimed_amount = Some(Unwrap(store.claimed_amount) + sender_airdrop_prize),
                !.claimed_prize = Some(Unwrap(store.claimed_prize) + sender_ticket_prize)],
             << get_bank_transfer_to_msg(sender, ticket_price.denom, sender_ticket_prize),
                get_cw20_transfer_to_msg(sender, cfg.cw20_token_address,
                                         sender_airdrop_prize) >>)

execute_claim_prize(sender) ==
  IF ~IsSome(store.stage_claim_prize) THEN Err("Std:NotFound", store)
  ELSE
  LET stage_err == check_if_valid_stage(block, Unwrap(store.stage_claim_prize),
                                        "claim prize")
      claimed == store.claim_prize[sender]
      cfg == Unwrap(store.config)
      winners == Unwrap(store.winners)
      ticket_price == Unwrap(store.ticket_price)
      ticket_prize == Unwrap(store.total_ticket_prize)
      airdrop_prize == Unwrap(store.total_amount_game)
      sender_ticket_prize == checked_div(ticket_prize, winners)
      sender_airdrop_prize == checked_div(airdrop_prize, winners)
      s1 == [store EXCEPT !.claim_prize[sender] = Some(TRUE)]
  IN IF stage_err /= "" THEN Err(stage_err, store)
     ELSE IF IsSome(claimed) /\ Unwrap(claimed) THEN Err("AlreadyClaimed", store)
     ELSE IF ~IsSome(claimed) THEN Err("NoteEligible", store)
     ELSE IF ~IsSome(store.total_amount_game) THEN Err("Std:NotFound", store)
     \* checked_div(winners).unwrap()
     ELSE IF winners = 0 THEN Err("Panic", store)
     ELSE IF ~IsSome(store.claimed_amount) \/ ~IsSome(store.claimed_prize)
       THEN Err("Std:NotFound", s1)
     ELSE Ok([s1 EXCEPT
                !.claimed_amount = Some(Unwrap(store.claimed_amount) + sender_airdrop_prize),
                !.claimed_prize = Some(Unwrap(store.claimed_prize) + sender_ticket_prize)],
             << get_bank_transfer_to_msg(sender, ticket_price.denom, sender_ticket_prize),
                get_cw20_transfer_to_msg(sender, cfg.cw20_token_address,
                                         sender_airdrop_prize) >>)

(***************************************************************************)
(* Withdrawal of the unclaimed remainder                                   *)
(***************************************************************************)
\* Owner check, then "the claim prize stage has ended"; "" when both pass.
\* A withdrawal gate that opens one instant after the stage end.
withdraw_gate_after_end(sender) ==
  IF ~IsSome(store.config) THEN "Std:NotFound"
  ELSE IF ~is_owner(sender) THEN "Unauthorized"
  ELSE LET stage == Unwrap(store.stage_claim_prize)
           e == ScheduledAdd(stage.start, stage.duration)
       IN IF e.err /= "" THEN e.err
          ELSE IF NowAt(e.val) <= e.val.at THEN "ClaimPrizeStageNotFinished"
          ELSE ""

withdraw_gate(sender) ==
  IF ~IsSome(store.config) THEN "Std:NotFound"
  ELSE IF ~is_owner(sender) THEN "Unauthorized"
  ELSE LET stage == Unwrap(store.stage_claim_prize)
           e == ScheduledAdd(stage.start, stage.duration)
       IN IF e.err /= "" THEN e.err
          ELSE IF ~is_triggered(e.val, block) THEN "ClaimPrizeStageNotFinished"
          ELSE ""

\* A WithdrawAirdrop that sends the committed total, claimed or not.
execute_withdraw_airdrop_of_total(sender, address) ==
  LET gate == withdraw_gate(sender)
      cfg == Unwrap(store.config)
      total == Unwrap(store.total_amount_airdrop) + Unwrap(store.total_amount_game)
  IN IF gate /= "" THEN Err(gate, store)
     ELSE IF ~IsSome(store.total_amount_airdrop) THEN Err("Std:NotFound", store)
     ELSE Ok(store, <<get_cw20_transfer_to_msg(address, cfg.cw20_token_address, total)>>)

execute_withdraw_airdrop(sender, address) ==
  LET gate == withdraw_gate(sender)
      cfg == Unwrap(store.config)
      total == Unwrap(store.total_amount_airdrop) + Unwrap(store.total_amount_game)
      claimed_amount == Unwrap(store.claimed_amount)
  IN IF gate /= "" THEN Err(gate, store)
     ELSE IF ~IsSome(store.total_amount_airdrop) THEN Err("Std:NotFound", store)
     \* Uint128 - panics below zero
     ELSE IF claimed_amount > total THEN Err("Panic", store)
     ELSE Ok(store, <<get_cw20_transfer_to_msg(address, cfg.cw20_token_address,
                                               total - claimed_amount)>>)

\* A WithdrawPrize that books the remainder it sends as claimed.
execute_withdraw_prize_recording(sender, address) ==
  LET gate == withdraw_gate(sender)
      total_prize == Unwrap(store.total_ticket_prize)
      claimed_prize == Unwrap(store.claimed_prize)
      ticket_price == Unwrap(store.ticket_price)
  IN IF gate /= "" THEN Err(gate, store)
     ELSE IF ~IsSome(store.claimed_prize) THEN Err("Std:NotFound", store)
     ELSE IF claimed_prize > total_prize THEN Err("Panic", store)
     ELSE Ok([store EXCEPT !.claimed_prize = Some(total_prize)],
             <<get_bank_transfer_to_msg(address, ticket_price.denom,
                                        total_prize - claimed_prize)>>)

execute_withdraw_prize(sender, address) ==
  LET gate == withdraw_gate(sender)
      total_prize == Unwrap(store.total_ticket_prize)
      claimed_prize == Unwrap(store.claimed_prize)
      ticket_price == Unwrap(store.ticket_price)
  IN IF gate /= "" THEN Err(gate, store)
     ELSE IF ~IsSome(store.claimed_prize) THEN Err("Std:NotFound", store)
     ELSE IF claimed_prize > total_prize THEN Err("Panic", store)
     ELSE Ok(store, <<get_bank_transfer_to_msg(address, ticket_price.denom,
                                               total_prize - claimed_prize)>>)

(***************************************************************************)
(* The committed trees (built off-chain with sorted-pair hashing) and the  *)
(* inputs the calls draw from.  A run draws from one of three slices of    *)
(* the inputs, named by scope: "game" (fixed owner, same-unit and          *)
(* mixed-unit stages), "admin" (owner changes, a claim-prize stage whose   *)
(* start and duration differ in unit), "audit" (running sums kept) and     *)
(* "overlap" (a bid stage in time beside claim stages in heights).         *)
(***************************************************************************)
\* Airdrop tree: (a, 12) and (a1, 5).
AirLeaf1 == Sha256(LeafPreimage(Addr1, 12))
AirLeaf2 == Sha256(LeafPreimage(Addr2, 5))
AirdropRoot == Sha256(SortedConcat(AirLeaf1, AirLeaf2))
\* A second airdrop tree with the single leaf (a, 12): its proof is empty.
AirdropRootSingle == AirLeaf1
\* Game tree: both participants win with bin 10.
GameLeaf1 == Sha256(LeafPreimage(Addr1, 10))
GameLeaf2 == Sha256(LeafPreimage(Addr2, 10))
GameRoot == Sha256(SortedConcat(GameLeaf1, GameLeaf2))

Coin(denom, amount) == [denom |-> denom, amount |-> amount]
\* The highest bin is the one the game tree commits for both participants.
BinInputs == {Bins, Bins + 1} \cup (IF scope = "admin" THEN {Bins - 1} ELSE {})
FundsInputs ==
  { <<Coin(Ujuno, TicketPriceAmount)>>,
    <<Coin(Ujuno, 2 * TicketPriceAmount)>>,
    <<Coin(Ubtc, 2 * TicketPriceAmount), Coin(Ujuno, 5)>>,
    <<Coin(Ujuno, TicketPriceAmount - 5), Coin(Ujuno, 5)>> }
AdminCallers == {OwnerAddr, Addr1}

Senders == IF scope = "admin" THEN {Addr1} ELSE Participants
Amounts == IF scope = "game" THEN {2, 5, 12} ELSE {5, 12}
ProofsAirdrop ==
  IF scope = "game"
  THEN {<<Hex(AirLeaf1)>>, <<Hex(AirLeaf2)>>, <<BadHexChar>>,
        <<Hex(AirLeaf1), BadHexLen>>}
  ELSE IF scope = "admin" THEN {<<>>, <<Hex(AirLeaf2)>>}
  ELSE {<<Hex(AirLeaf1)>>, <<Hex(AirLeaf2)>>}
ProofsGame ==
  IF scope = "game" THEN {<<Hex(GameLeaf1)>>, <<Hex(GameLeaf2)>>, <<BadHexLen>>}
  ELSE {<<Hex(GameLeaf1)>>, <<Hex(GameLeaf2)>>}
NewOwners == IF scope = "admin" THEN {None, Some(Addr1)} ELSE {Some(OwnerAddr)}
\* RegisterMerkleRoots arguments: root_airdrop, total_airdrop, root_game, total_game.
RegisterInputs ==
  { <<Hex(AirdropRoot), Some(17), Hex(GameRoot), Some(7)>> }
  \cup
  (IF scope = "game"
   THEN { <<Hex(AirdropRoot), None, Hex(GameRoot), None>>,
          <<BadHexChar, Some(17), Hex(GameRoot), Some(7)>>,
          <<Hex(AirdropRoot), Some(17), BadHexLen, Some(7)>> }
   ELSE IF scope = "admin"
   THEN { <<Hex(AirdropRoot), None, Hex(GameRoot), None>>,
          <<Hex(AirdropRootSingle), Some(12), Hex(GameRoot), Some(7)>> }
   ELSE {})

\* The stage triples Instantiate is called with.
StagesValid ==
  <<MkStage(AtHeight(1), DHeight(1)), MkStage(AtHeight(2), DHeight(1)),
    MkStage(AtHeight(3), DHeight(1))>>
\* Bid and claim-airdrop stages in heights, claim-prize stage in time.
StagesMixed ==
  <<MkStage(AtHeight(1), DHeight(1)), MkStage(AtHeight(2), DHeight(3)),
    MkStage(AtTime(3), DTime(1))>>
\* The claim-prize stage starts at a height and lasts a time.
StagesPrizeMismatch ==
  <<MkStage(AtHeight(1), DHeight(1)), MkStage(AtHeight(2), DHeight(1)),
    MkStage(AtHeight(3), DTime(1))>>
StagesOverlapBid ==
  <<MkStage(AtHeight(1), DHeight(2)), MkStage(AtHeight(2), DHeight(1)),
    MkStage(AtHeight(3), DHeight(1))>>
StagesOverlapAirdrop ==
  <<MkStage(AtHeight(1), DHeight(1)), MkStage(AtHeight(2), DHeight(2)),
    MkStage(AtHeight(3), DHeight(1))>>
StagesBidPassed ==
  <<MkStage(AtHeight(0), DHeight(1)), MkStage(AtHeight(2), DHeight(1)),
    MkStage(AtHeight(3), DHeight(1))>>
StagesBidMismatch ==
  <<MkStage(AtHeight(1), DTime(1)), MkStage(AtHeight(2), DHeight(1)),
    MkStage(AtHeight(3), DHeight(1))>>
\* Both pairs of consecutive stages overlap.
StagesOverlapBoth ==
  <<MkStage(AtHeight(1), DHeight(2)), MkStage(AtHeight(2), DHeight(2)),
    MkStage(AtHeight(3), DHeight(1))>>
\* The bid stage is scheduled in time and runs on while the two claim
\* stages, scheduled in heights, open and close.
StagesBidInTime ==
  <<MkStage(AtTime(1), DTime(4)), MkStage(AtHeight(2), DHeight(1)),
    MkStage(AtHeight(3), DHeight(1))>>
StageInputs ==
  IF scope = "overlap" THEN {StagesBidInTime, StagesBidPassed}
  ELSE
  { StagesValid, StagesOverlapBid, StagesOverlapAirdrop, StagesBidPassed,
    StagesBidMismatch, StagesOverlapBoth }
  \cup
  (IF scope = "game" THEN {StagesMixed}
   ELSE IF scope = "admin" THEN {StagesPrizeMismatch} ELSE {})

InstantiateMsg(owner, stages) ==
  [ owner |-> owner,
    cw20_token_address |-> TokenAddr,
    ticket_price |-> Coin(Ujuno, TicketPriceAmount),
    bins |-> Bins,
    stage_bid |-> stages[1],
    stage_claim_airdrop |-> stages[2],
    stage_claim_prize |-> stages[3] ]

(***************************************************************************)
(* The state machine: one action per entry point, plus the clock.          *)
(***************************************************************************)
RECURSIVE SumMsgs(_, _)
\* Total amount of the transfers of one kind in a response.
SumMsgs(msgs, kind) ==
  IF msgs = <<>> THEN 0
  ELSE (IF Head(msgs).kind = kind THEN Head(msgs).amount ELSE 0)
       + SumMsgs(Tail(msgs), kind)

NativePayers == {"ClaimPrize", "WithdrawPrize"}
TokenPayers == {"ClaimAirdrop", "ClaimPrize", "WithdrawAirdrop"}
BidLedgerOps == {"Bid", "RemoveBid"}

\* The host runs a call to completion: its writes and messages take effect
\* when it returns Ok and are dropped when it returns an error or panics.
CallWith(op, sender, r, funds) ==
  LET msgs == IF r.err = "" THEN r.msgs ELSE <<>>
      sent == IF r.err = "" THEN get_amount_for_denom(funds, Ujuno) ELSE 0
      native == IF scope = "audit" /\ op \in NativePayers
                THEN SumMsgs(msgs, "bank") ELSE 0
      token == IF scope = "audit" /\ op \in TokenPayers
               THEN SumMsgs(msgs, "cw20") ELSE 0
  IN /\ paid_native + native <= MaxPaid
     /\ paid_token + token <= MaxPaid
     /\ store' = IF r.err = "" THEN r.store ELSE store
     /\ res' = [op |-> op, err |-> r.err, msgs |-> msgs]
     /\ paid_native' = paid_native + native
     /\ paid_token' = paid_token + token
     /\ airdrop_transfers' =
          IF op = "ClaimAirdrop"
          THEN [a \in Addrs |-> airdrop_transfers[a]
                  + Cardinality({i \in 1..Len(msgs) : msgs[i].to = a})]
          ELSE airdrop_transfers
     /\ prize_transfers' =
          IF op = "ClaimPrize" /\ msgs /= <<>>
          THEN [prize_transfers EXCEPT ![msgs[1].to] = @ + 1]
          ELSE prize_transfers
     /\ net_paid' =
          IF op \in BidLedgerOps
          THEN [net_paid EXCEPT ![sender] = @ + sent - SumMsgs(msgs, "bank")]
          ELSE net_paid
     /\ UNCHANGED <<block, scope, tree>>

\* A call that carries no funds.
Call(op, sender, r) == CallWith(op, sender, r, <<>>)

Instantiated == IsSome(store.config)

Instantiate ==
  /\ ~Instantiated
  /\ \E owner \in {None, Some(OwnerAddr)}, stages \in StageInputs :
       Call("Instantiate", OwnerAddr,
            instantiate(OwnerAddr, InstantiateMsg(owner, stages)))

UpdateConfig ==
  /\ Instantiated
  /\ \E sender \in AdminCallers, new_owner \in NewOwners :
       Call("UpdateConfig", sender, execute_update_config(sender, new_owner))

Bid ==
  /\ Instantiated
  /\ \E sender \in Senders, funds \in FundsInputs, bin \in BinInputs :
       CallWith("Bid", sender, execute_bid(sender, funds, bin), funds)

ChangeBid ==
  /\ Instantiated
  /\ \E sender \in Senders, bin \in BinInputs :
       Call("ChangeBid", sender, execute_change_bid(sender, bin))

RemoveBid ==
  /\ Instantiated
  /\ \E sender \in Senders :
       Call("RemoveBid", sender, execute_remove_bid(sender))

RegisterMerkleRoots ==
  /\ Instantiated
  /\ \E sender \in AdminCallers, m \in RegisterInputs :
       Call("RegisterMerkleRoots", sender,
            execute_register_merkle_roots(sender, m[1], m[2], m[3], m[4]))

ClaimAirdrop ==
  /\ Instantiated
  /\ \E sender \in Senders, amount \in Amounts, pa \in ProofsAirdrop,
        pg \in ProofsGame :
       Call("ClaimAirdrop", sender, execute_claim_airdrop(sender, amount, pa, pg))

ClaimPrize ==
  /\ Instantiated
  /\ \E sender \in Senders :
       Call("ClaimPrize", sender, execute_claim_prize(sender))

WithdrawAirdrop ==
  /\ Instantiated
  /\ \E sender \in AdminCallers :
       Call("WithdrawAirdrop", sender, execute_withdraw_airdrop(sender, OwnerAddr))

WithdrawPrize ==
  /\ Instantiated
  /\ \E sender \in AdminCallers :
       Call("WithdrawPrize", sender, execute_withdraw_prize(sender, OwnerAddr))

\* The next block: height and time both advance.
Tick ==
  /\ block.height < MaxHeight
  /\ block' = [height |-> block.height + 1, time |-> block.time + 1]
  /\ UNCHANGED <<store, res, scope, paid_native, paid_token, airdrop_transfers,
                 prize_transfers, net_paid, tree>>

NoCall == [op |-> "None", err |-> "", msgs |-> <<>>]

InitCommon ==
  /\ block = [height |-> 0, time |-> 0]
  /\ store = EmptyStore
  /\ res = NoCall
  /\ paid_native = 0
  /\ paid_token = 0
  /\ airdrop_transfers = [a \in Addrs |-> 0]
  /\ prize_transfers = [a \in Addrs |-> 0]
  /\ net_paid = [a \in Addrs |-> 0]

\* No tree: the contract runs verify proofs against the registered roots.
NoTree == [sender |-> <<>>, value |-> 0, path |-> <<>>, root |-> <<>>,
           tampered |-> FALSE]

Init == InitCommon /\ scope = "game" /\ tree = NoTree
InitAdmin == InitCommon /\ scope = "admin" /\ tree = NoTree
InitAudit == InitCommon /\ scope = "audit" /\ tree = NoTree
InitOverlap == InitCommon /\ scope = "overlap" /\ tree = NoTree

Next ==
  \/ Instantiate
  \/ UpdateConfig
  \/ Bid
  \/ ChangeBid
  \/ RemoveBid
  \/ RegisterMerkleRoots
  \/ ClaimAirdrop
  \/ ClaimPrize
  \/ WithdrawAirdrop
  \/ WithdrawPrize
  \/ Tick

Spec == Init /\ [][Next]_vars
SpecAdmin == InitAdmin /\ [][Next]_vars
SpecAudit == InitAudit /\ [][Next]_vars
SpecOverlap == InitOverlap /\ [][Next]_vars

(***************************************************************************)
(* Proof trees: the verification of execute_claim_airdrop applied to       *)
(* sibling paths built with sorted-pair hashing.  A run starts from a      *)
(* single leaf (empty path), grows the tree one level at a time with the   *)
(* sibling on either side, and may replace one element of the path.        *)
(***************************************************************************)
\* The (address, value) pairs a leaf is made of.
ProofLeaves == {<<Addr1, 12>>, <<Addr2, 5>>, <<Addr1, 5>>}
\* 32-byte values: digests of leaves and of an inner node, the siblings a
\* path is made of; they fall on both sides of the nodes they are hashed with.
ProofDigests == {AirLeaf1, AirLeaf2, GameLeaf1, AirdropRoot}

\* The parent of two nodes: the digest of the two in byte order.
HashPair(left, right) ==
  Sha256(IF LexLess(right, left) THEN right \o left ELSE left \o right)

\* The proof as the message carries it: one hex string per sibling.
HexPath(path) == [i \in 1..Len(path) |-> Hex(path[i])]

InitProof ==
  /\ InitCommon
  /\ scope = "proof"
  /\ \E leaf \in ProofLeaves :
       tree = [sender |-> leaf[1], value |-> leaf[2], path |-> <<>>,
               root |-> Sha256(LeafPreimage(leaf[1], leaf[2])),
               tampered |-> FALSE]

\* One more level: the current root gets a sibling on its left or its right.
GrowTree ==
  /\ ~tree.tampered
  /\ Len(tree.path) < MaxProofLen
  /\ \E sibling \in ProofDigests, side \in {"left", "right"} :
       tree' = [tree EXCEPT
                  !.path = Append(@, sibling),
                  !.root = IF side = "left" THEN HashPair(sibling, @)
                           ELSE HashPair(@, sibling)]
  /\ UNCHANGED <<block, store, res, scope, paid_native, paid_token,
                 airdrop_transfers, prize_transfers, net_paid>>

\* One element of the path is replaced by a different 32-byte value.
TamperProof ==
  /\ ~tree.tampered
  /\ \E i \in 1..Len(tree.path) : \E d \in ProofDigests \ {tree.path[i]} :
       tree' = [tree EXCEPT !.path[i] = d, !.tampered = TRUE]
  /\ UNCHANGED <<block, store, res, scope, paid_native, paid_token,
                 airdrop_transfers, prize_transfers, net_paid>>

NextProof ==
  \/ GrowTree
  \/ TamperProof

SpecProof == InitProof /\ [][NextProof]_vars

(***************************************************************************)
(* Properties                                                              *)
(***************************************************************************)
Registered == IsSome(store.merkle_root_airdrop)
HasBid(p) == IsSome(store.bids[p])
Committed == Unwrap(store.total_amount_airdrop) + Unwrap(store.total_amount_game)

\* The instant a Scheduled is measured against: the block's height or time.
NowOf(s) == IF s.kind = "height" THEN block.height ELSE block.time
\* start <= now < start + duration, for a stage whose start and duration
\* share a unit.
InWindow(stage) ==
  /\ stage.start.kind = stage.duration.kind
  /\ stage.start.at <= NowOf(stage.start)
  /\ NowOf(stage.start) < stage.start.at + stage.duration.len
BidStage == Unwrap(store.stage_bid)
AirdropStage == Unwrap(store.stage_claim_airdrop)
PrizeStage == Unwrap(store.stage_claim_prize)

\* The leaf of (p, value) with the sibling path `proof` recomputes `root`.
Verifies(p, value, proof, root) ==
  LET h == merkle_fold(Sha256(LeafPreimage(p, value)), proof)
  IN h.err = "" /\ h.hash = hex_decode_to_slice(root).bytes
WellFormed(proof) == \A i \in 1..Len(proof) : proof[i].enc = "hex"

\* C1: the native amounts emitted by ClaimPrize and WithdrawPrize never sum
\* to more than total_ticket_prize, and the token amounts emitted by
\* ClaimAirdrop, ClaimPrize and WithdrawAirdrop never sum to more than
\* total_airdrop_amount + total_airdrop_game_amount.
C1_PaidAtMostOnce ==
  (Instantiated /\ Registered) =>
     /\ paid_native <= Unwrap(store.total_ticket_prize)
     /\ paid_token <= Committed

\* C2: inside the claim-airdrop stage a ClaimAirdrop with valid arguments by
\* a participant who has not claimed succeeds, every ClaimAirdrop by one who
\* has claimed fails with AlreadyClaimed whatever its amount and proofs, and
\* no address is ever sent more than one airdrop transfer.
C2_ClaimExactlyOnce ==
  /\ \A a \in Addrs : airdrop_transfers[a] <= 1
  /\ (Instantiated /\ InWindow(AirdropStage)) =>
       \A p \in Senders, amount \in Amounts, pa \in ProofsAirdrop, pg \in ProofsGame :
         LET r == execute_claim_airdrop(p, amount, pa, pg)
         IN /\ IsSome(store.claim_airdrop[p]) => r.err = "AlreadyClaimed"
            /\ ( /\ ~IsSome(store.claim_airdrop[p])
                 /\ Registered
                 /\ Verifies(p, amount, pa, Unwrap(store.merkle_root_airdrop))
                 /\ (HasBid(p) => WellFormed(pg)) )
               => r.err = ""

\* C2 witness: a participant who has been paid the airdrop once has just had
\* a further ClaimAirdrop rejected with AlreadyClaimed.
C2_Witness ==
  /\ res.op = "ClaimAirdrop"
  /\ res.err = "AlreadyClaimed"
  /\ \E p \in Participants : airdrop_transfers[p] = 1

\* C3 as stated: a Bid by a participant who has a live bid always fails with
\* CannotBidMoreThanOnce.
C3_AlwaysCannotBidMoreThanOnce ==
  Instantiated =>
    \A p \in Senders, funds \in FundsInputs, bin \in BinInputs :
      HasBid(p) => execute_bid(p, funds, bin).err = "CannotBidMoreThanOnce"

\* C3 amended: at most one bin is recorded per participant, and a Bid by a
\* participant who has a live bid always fails and changes nothing: with
\* CannotBidMoreThanOnce while the bid stage is active, with StageEnded once
\* it has ended.
C3_AtMostOneBid ==
  Instantiated =>
    \A p \in Senders :
      /\ Len(store.bids[p]) <= 1
      /\ HasBid(p) =>
           \A funds \in FundsInputs, bin \in BinInputs :
             LET r == execute_bid(p, funds, bin)
             IN /\ r.err = IF InWindow(BidStage) THEN "CannotBidMoreThanOnce"
                           ELSE "StageEnded:bid"
                /\ r.store.bids = store.bids
                /\ r.store.total_ticket_prize = store.total_ticket_prize

\* C3 witness: a second Bid inside the bid stage has just been rejected.
C3_Witness ==
  /\ res.op = "Bid"
  /\ res.err = "CannotBidMoreThanOnce"
  /\ \E p \in Participants : HasBid(p)

\* C4: once roots are registered,
\* claimed_airdrop_amount <= total_airdrop_amount + total_airdrop_game_amount.
C4_ClaimedAirdropWithinCommitted ==
  (Instantiated /\ Registered) => Unwrap(store.claimed_amount) <= Committed

\* C5: once roots are registered, claimed_prize_amount <= total_ticket_prize.
C5_ClaimedPrizeWithinPool ==
  (Instantiated /\ Registered) =>
     Unwrap(store.claimed_prize) <= Unwrap(store.total_ticket_prize)

\* A step that is a successful call of `op` (calls leave the block alone).
Succeeds(op) == block' = block /\ res'.op = op /\ res'.err = ""

\* C6: a successful ClaimPrize by winner p emits exactly two transfers to p,
\* total_ticket_prize / winners_count (rounded down) in the ticket
\* denomination and total_airdrop_game_amount / winners_count (rounded down)
\* in tokens, marks p's prize record paid and adds the two shares to
\* claimed_prize_amount and claimed_airdrop_amount.
C6_ClaimPrizeShares ==
  [][ Succeeds("ClaimPrize") =>
        LET p == res'.msgs[1].to
            n == Unwrap(store.winners)
            ticket_share == Unwrap(store.total_ticket_prize) \div n
            airdrop_share == Unwrap(store.total_amount_game) \div n
        IN /\ n > 0
           /\ res'.msgs =
                << [kind |-> "bank", to |-> p, asset |-> Ujuno, amount |-> ticket_share],
                   [kind |-> "cw20", to |-> p, asset |-> TokenAddr,
                    amount |-> airdrop_share] >>
           /\ store.claim_prize[p] = Some(FALSE)
           /\ store' = [store EXCEPT
                 !.claim_prize[p] = Some(TRUE),
                 !.claimed_prize = Some(Unwrap(store.claimed_prize) + ticket_share),
                 !.claimed_amount = Some(Unwrap(store.claimed_amount) + airdrop_share)]
    ]_vars

\* C6 witness: with two winners, a ticket pool of 20 and a game total of 7, a
\* winner has just been paid 10 in native currency and 3 in tokens.
C6_Witness ==
  /\ res.op = "ClaimPrize" /\ res.err = ""
  /\ store.winners = Some(2)
  /\ store.total_ticket_prize = Some(2 * TicketPriceAmount)
  /\ store.total_amount_game = Some(7)
  /\ res.msgs[1].amount = TicketPriceAmount
  /\ res.msgs[2].amount = 3
  /\ store.claim_prize[res.msgs[1].to] = Some(TRUE)

\* The results of every stage-bound operation on every input, with the stage
\* and the stage name each is gated by.
GatedResults ==
  {<<BidStage, "bid", execute_bid(p, funds, bin)>> :
      p \in Senders, funds \in FundsInputs, bin \in BinInputs}
  \cup {<<BidStage, "bid", execute_change_bid(p, bin)>> :
      p \in Senders, bin \in BinInputs}
  \cup {<<BidStage, "bid", execute_remove_bid(p)>> : p \in Senders}
  \cup {<<AirdropStage, "claim airdrop", execute_claim_airdrop(p, amount, pa, pg)>> :
      p \in Senders, amount \in Amounts, pa \in ProofsAirdrop, pg \in ProofsGame}
  \cup {<<PrizeStage, "claim prize", execute_claim_prize(p)>> : p \in Senders}

\* C7: Bid, ChangeBid and RemoveBid succeed only at instants with
\* bid.start <= now < bid.start + bid.duration, ClaimAirdrop only inside the
\* claim-airdrop window and ClaimPrize only inside the claim-prize window;
\* before the start each fails with StageNotStarted and from
\* start + duration on with StageEnded, whatever else is wrong with the call.
C7_StageGate ==
  Instantiated =>
    \A g \in GatedResults :
      LET stage == g[1]
          r == g[3]
          now == NowOf(stage.start)
      IN /\ r.err = "" => InWindow(stage)
         /\ now < stage.start.at => r.err = "StageNotStarted:" \o g[2]
         /\ (stage.start.kind = stage.duration.kind
             /\ now >= stage.start.at + stage.duration.len)
            => r.err = "StageEnded:" \o g[2]
         /\ r.err /= "" => r.store = store \/ InWindow(stage)

\* C7 witness: a Bid has just been turned away at the very instant
\* bid.start + bid.duration.
C7_Witness ==
  /\ res.op = "Bid" /\ res.err = "StageEnded:bid"
  /\ block.height = BidStage.start.at + BidStage.duration.len

\* The stages of `stages` that are active now.
ActiveStages ==
  {i \in 1..3 : InWindow(<<BidStage, AirdropStage, PrizeStage>>[i])}
\* end of `a` <= start of `b`, for stages measured in the same unit.
Precedes(a, b) ==
  (a.start.kind = b.start.kind /\ a.start.kind = a.duration.kind)
    => a.start.at + a.duration.len <= b.start.at

\* C8: every instantiated contract has
\* bid.end <= claim_airdrop.start <= claim_airdrop.end <= claim_prize.start,
\* so at no instant is more than one of the three stages active.
C8_StagesOrderedAndExclusive ==
  Instantiated =>
    /\ Precedes(BidStage, AirdropStage)
    /\ Precedes(AirdropStage, PrizeStage)
    /\ Cardinality(ActiveStages) <= 1

\* C9: a successful ClaimAirdrop by p creates a prize record "not yet paid"
\* for p and adds exactly 1 to winners_count if and only if p has a live bid
\* and the game proof verifies against the game root for the leaf built from
\* p and the bin stored for p; otherwise winners_count and the prize records
\* are unchanged.
C9_WinnerRegistration ==
  (Instantiated /\ InWindow(AirdropStage)) =>
    \A p \in Senders, amount \in Amounts, pa \in ProofsAirdrop, pg \in ProofsGame :
      LET r == execute_claim_airdrop(p, amount, pa, pg)
          wins == /\ HasBid(p)
                  /\ Verifies(p, Unwrap(store.bids[p]), pg,
                              Unwrap(store.merkle_root_game))
      IN r.err = "" =>
           IF wins
           THEN /\ r.store.claim_prize = [store.claim_prize EXCEPT ![p] = Some(FALSE)]
                /\ r.store.winners = Some(Unwrap(store.winners) + 1)
           ELSE /\ r.store.claim_prize = store.claim_prize
                /\ r.store.winners = store.winners

\* C9 witness: a bidder of the committed bin has just claimed the airdrop and
\* is recorded as the only winner, not yet paid.
C9_Witness ==
  /\ res.op = "ClaimAirdrop" /\ res.err = ""
  /\ store.winners = Some(1)
  /\ HasBid(res.msgs[1].to)
  /\ store.claim_prize[res.msgs[1].to] = Some(FALSE)

\* C10: inside the claim-airdrop stage a ClaimAirdrop by a participant with
\* a live bid, no earlier claim and a valid airdrop proof, whose well-formed
\* game proof does not verify, succeeds, pays the airdrop amount and records
\* no winner.
C10_GameProofFailureIsNotAnError ==
  (Instantiated /\ InWindow(AirdropStage) /\ Registered) =>
    \A p \in Senders, amount \in Amounts, pa \in ProofsAirdrop, pg \in ProofsGame :
      ( /\ HasBid(p)
        /\ ~IsSome(store.claim_airdrop[p])
        /\ Verifies(p, amount, pa, Unwrap(store.merkle_root_airdrop))
        /\ WellFormed(pg)
        /\ ~Verifies(p, Unwrap(store.bids[p]), pg, Unwrap(store.merkle_root_game)) )
      => LET r == execute_claim_airdrop(p, amount, pa, pg)
         IN /\ r.err = ""
            /\ r.msgs = << [kind |-> "cw20", to |-> p, asset |-> TokenAddr,
                            amount |-> amount] >>
            /\ r.store.claim_airdrop[p] = Some(TRUE)
            /\ r.store.claim_prize[p] = None
            /\ r.store.winners = store.winners

\* C10 witness: a participant with a live bid has just been paid the airdrop
\* and has no prize record, so the game proof did not verify.
C10_Witness ==
  /\ res.op = "ClaimAirdrop" /\ res.err = ""
  /\ HasBid(res.msgs[1].to)
  /\ store.claim_airdrop[res.msgs[1].to] = Some(TRUE)
  /\ store.claim_prize[res.msgs[1].to] = None
  /\ res.msgs[1].amount \in Amounts

\* C11: inside the claim-prize stage ClaimPrize fails with NoteEligible for
\* a caller without a prize record and with AlreadyClaimed for a caller
\* whose record is paid; no address is paid the prize more than once, and an
\* address without a prize record has never been paid it.
C11_PrizeOnceAndOnlyToWinners ==
  /\ \A a \in Addrs :
       /\ prize_transfers[a] <= 1
       /\ store.claim_prize[a] = None => prize_transfers[a] = 0
       /\ prize_transfers[a] = 1 => store.claim_prize[a] = Some(TRUE)
  /\ (Instantiated /\ InWindow(PrizeStage)) =>
       \A p \in Senders :
         LET r == execute_claim_prize(p)
         IN /\ store.claim_prize[p] = None => r.err = "NoteEligible"
            /\ store.claim_prize[p] = Some(TRUE) => r.err = "AlreadyClaimed"
            /\ r.err /= "" => r.store = store /\ r.msgs = <<>>

\* C11 witness: a winner who has been paid the prize has just had a second
\* ClaimPrize rejected with AlreadyClaimed.
C11_Witness ==
  /\ res.op = "ClaimPrize" /\ res.err = "AlreadyClaimed"
  /\ \E p \in Participants : prize_transfers[p] = 1

\* C12: a ClaimAirdrop by p with amount a is paid only if the leaf built
\* from (p, a) verifies against the registered airdrop root; inside the
\* stage, for an unclaimed p and a well-formed proof that does not verify,
\* the call fails with VerificationFailed{airdrop}, writes no record and
\* emits no transfer.
C12_AirdropOnlyWithVerifyingLeaf ==
  (Instantiated /\ InWindow(AirdropStage)) =>
    \A p \in Senders, amount \in Amounts, pa \in ProofsAirdrop, pg \in ProofsGame :
      LET r == execute_claim_airdrop(p, amount, pa, pg)
          verifies == /\ Registered
                      /\ Verifies(p, amount, pa, Unwrap(store.merkle_root_airdrop))
      IN /\ r.err = "" => verifies
         /\ (Registered /\ ~IsSome(store.claim_airdrop[p]) /\ WellFormed(pa) /\ ~verifies)
            => /\ r.err = "VerificationFailed:airdrop"
               /\ r.store = store
               /\ r.msgs = <<>>

\* C12 witness: a claim with a well-formed proof has just been rejected with
\* VerificationFailed{airdrop}, and the caller has no claim record.
C12_Witness ==
  /\ res.op = "ClaimAirdrop" /\ res.err = "VerificationFailed:airdrop"
  /\ res.msgs = <<>>
  /\ \E p \in Participants : ~IsSome(store.claim_airdrop[p])

\* C13: a successful ClaimAirdrop by p with amount a records p's airdrop
\* claim as claimed, adds exactly a to claimed_airdrop_amount and emits
\* exactly one transfer, a tokens of the configured token contract to p.
C13_ClaimAirdropEffects ==
  (Instantiated /\ InWindow(AirdropStage)) =>
    \A p \in Senders, amount \in Amounts, pa \in ProofsAirdrop, pg \in ProofsGame :
      LET r == execute_claim_airdrop(p, amount, pa, pg)
      IN r.err = "" =>
           /\ r.msgs = << [kind |-> "cw20", to |-> p,
                           asset |-> Unwrap(store.config).cw20_token_address,
                           amount |-> amount] >>
           /\ store.claim_airdrop[p] = None
           /\ r.store.claim_airdrop = [store.claim_airdrop EXCEPT ![p] = Some(TRUE)]
           /\ r.store.claimed_amount = Some(Unwrap(store.claimed_amount) + amount)
           /\ r.store = [store EXCEPT !.claim_airdrop = r.store.claim_airdrop,
                                      !.claimed_amount = r.store.claimed_amount,
                                      !.claim_prize = r.store.claim_prize,
                                      !.winners = r.store.winners]

\* C13 witness: the first claim after a registration has just been paid:
\* one token transfer, whose amount is the whole of claimed_airdrop_amount.
C13_Witness ==
  /\ res.op = "ClaimAirdrop" /\ res.err = ""
  /\ Len(res.msgs) = 1
  /\ res.msgs[1].kind = "cw20"
  /\ store.claimed_amount = Some(res.msgs[1].amount)
  /\ store.claim_airdrop[res.msgs[1].to] = Some(TRUE)

TicketPrice == Unwrap(store.ticket_price)

\* C14: a successful Bid paid with ticket_price + k in the ticket
\* denomination records the chosen bin for the sender, adds exactly
\* ticket_price.amount to total_ticket_prize and refunds exactly k to the
\* sender (one transfer when k > 0, none when k = 0); the net payment of
\* every participant with a live bid is exactly the ticket price.
C14_BidRefund ==
  Instantiated =>
    /\ \A a \in Addrs : HasBid(a) => net_paid[a] = TicketPrice.amount
    /\ InWindow(BidStage) =>
         \A p \in Senders, funds \in FundsInputs, bin \in BinInputs :
           LET r == execute_bid(p, funds, bin)
               k == get_amount_for_denom(funds, TicketPrice.denom) - TicketPrice.amount
           IN r.err = "" =>
                /\ k >= 0
                /\ r.store = [store EXCEPT
                     !.bids[p] = Some(bin),
                     !.total_ticket_prize =
                        Some(Unwrap(store.total_ticket_prize) + TicketPrice.amount)]
                /\ r.msgs = IF k > 0
                            THEN << [kind |-> "bank", to |-> p,
                                     asset |-> TicketPrice.denom, amount |-> k] >>
                            ELSE <<>>

\* C14 witness: a Bid paid with twice the ticket price has just been
\* accepted and the ticket price sent back.
C14_Witness ==
  /\ res.op = "Bid" /\ res.err = ""
  /\ Len(res.msgs) = 1
  /\ res.msgs[1].amount = TicketPriceAmount
  /\ net_paid[res.msgs[1].to] = TicketPriceAmount
  /\ HasBid(res.msgs[1].to)

Bidders == {a \in Addrs : HasBid(a)}

\* C15: inside the bid stage RemoveBid by a participant with a live bid
\* deletes the bid, takes exactly ticket_price.amount off total_ticket_prize
\* and refunds exactly ticket_price.amount, so that a participant without a
\* bid has paid nothing on balance and total_ticket_prize is the ticket price
\* times the number of live bids; RemoveBid by a participant without a bid
\* fails with BidNotPresent and refunds nothing.
C15_RemoveBidRoundTrip ==
  Instantiated =>
    /\ \A a \in Addrs : ~HasBid(a) => net_paid[a] = 0
    /\ Unwrap(store.total_ticket_prize) = TicketPrice.amount * Cardinality(Bidders)
    /\ InWindow(BidStage) =>
         \A p \in Senders :
           LET r == execute_remove_bid(p)
           IN IF HasBid(p)
              THEN /\ r.err = ""
                   /\ r.store = [store EXCEPT
                        !.bids[p] = None,
                        !.total_ticket_prize =
                           Some(Unwrap(store.total_ticket_prize) - TicketPrice.amount)]
                   /\ r.msgs = << [kind |-> "bank", to |-> p,
                                   asset |-> TicketPrice.denom,
                                   amount |-> TicketPrice.amount] >>
              ELSE /\ r.err = "BidNotPresent"
                   /\ r.store = store
                   /\ r.msgs = <<>>

\* C15 witness: a participant who bid has just removed the bid and been
\* refunded the ticket price, leaving no bid, an empty pool and nothing paid
\* on balance.
C15_Witness ==
  /\ res.op = "RemoveBid" /\ res.err = ""
  /\ res.msgs[1].amount = TicketPriceAmount
  /\ ~HasBid(res.msgs[1].to)
  /\ net_paid[res.msgs[1].to] = 0
  /\ Bidders = {}
  /\ store.total_ticket_prize = Some(0)

\* The positions of `funds` that hold coins of `denom`.
CoinsOf(funds, denom) == {i \in 1..Len(funds) : funds[i].denom = denom}
\* `funds` holds at least `n` in coins of `denom` (lists of up to two coins).
SentAtLeast(funds, denom, n) ==
  \/ \E i \in CoinsOf(funds, denom) : funds[i].amount >= n
  \/ \E i, j \in CoinsOf(funds, denom) :
       i /= j /\ funds[i].amount + funds[j].amount >= n

\* C16: inside the bid stage a Bid by a participant without a bid fails with
\* TicketPriceNotPaid when the sent coins of the ticket denomination sum to
\* less than ticket_price.amount (other denominations do not count), and
\* otherwise with BinDoesNotExist when bin > bins (bin = bins is accepted);
\* a failed Bid records nothing, leaves total_ticket_prize alone and refunds
\* nothing.
C16_BidValidation ==
  (Instantiated /\ InWindow(BidStage)) =>
    \A p \in Senders, funds \in FundsInputs, bin \in BinInputs :
      ~HasBid(p) =>
        LET r == execute_bid(p, funds, bin)
            paid == SentAtLeast(funds, TicketPrice.denom, TicketPrice.amount)
        IN /\ r.err = IF ~paid THEN "TicketPriceNotPaid"
                      ELSE IF bin > Unwrap(store.bins) THEN "BinDoesNotExist"
                      ELSE ""
           /\ r.err /= "" => r.store = store /\ r.msgs = <<>>

\* C16 witness: a Bid has just been rejected with TicketPriceNotPaid and the
\* pool holds no ticket.
C16_Witness ==
  /\ res.op = "Bid" /\ res.err = "TicketPriceNotPaid"
  /\ res.msgs = <<>>
  /\ store.total_ticket_prize = Some(0)
  /\ InWindow(BidStage)

\* C17: inside the bid stage ChangeBid by a participant with a live bid
\* replaces that participant's bin with the new bin and changes nothing
\* else (total_ticket_prize, the other bids and all claim state stay, no
\* transfer is emitted); by a participant without a bid it fails with
\* BidNotPresent.
C17_ChangeBidFrame ==
  (Instantiated /\ InWindow(BidStage)) =>
    \A p \in Senders, bin \in BinInputs :
      LET r == execute_change_bid(p, bin)
      IN IF HasBid(p)
         THEN /\ r.err = ""
              /\ r.store = [store EXCEPT !.bids[p] = Some(bin)]
              /\ r.msgs = <<>>
         ELSE /\ r.err = "BidNotPresent"
              /\ r.store = store
              /\ r.msgs = <<>>

\* C17 witness: a ChangeBid has just moved one bid to another bin while the
\* other participant's bid and the pool of two tickets stayed.
C17_Witness ==
  /\ res.op = "ChangeBid" /\ res.err = "" /\ res.msgs = <<>>
  /\ store.bids[Addr1] = Some(Bins + 1)
  /\ store.bids[Addr2] = Some(Bins)
  /\ store.total_ticket_prize = Some(2 * TicketPriceAmount)

\* C18: every bid recorded in the bid ledger has a bin in 0..bins.
C18_BinsInRange ==
  Instantiated =>
    \A a \in Addrs :
      HasBid(a) => Unwrap(store.bids[a]) \in 0..Unwrap(store.bins)

\* The owner stored in the config (an Option).
CurrentOwner == Unwrap(store.config).owner
\* A hex string of 32 well-formed bytes.
WellFormedRoot(h) == h.enc = "hex"
TotalOr0(o) == IF o = None THEN 0 ELSE o[1]

\* C19: RegisterMerkleRoots by the owner with two well-formed roots succeeds
\* at any instant and any number of times; it stores the two roots and the
\* two totals (0 for an omitted total) and sets claimed_airdrop_amount and
\* claimed_prize_amount to 0, whatever has been claimed before, and changes
\* nothing else.
C19_RegisterAnyTime ==
  Instantiated =>
    \A sender \in AdminCallers, m \in RegisterInputs :
      (CurrentOwner = Some(sender) /\ WellFormedRoot(m[1]) /\ WellFormedRoot(m[3]))
      => LET r == execute_register_merkle_roots(sender, m[1], m[2], m[3], m[4])
         IN /\ r.err = ""
            /\ r.msgs = <<>>
            /\ r.store = [store EXCEPT
                 !.merkle_root_airdrop = Some(m[1]),
                 !.merkle_root_game = Some(m[3]),
                 !.total_amount_airdrop = Some(TotalOr0(m[2])),
                 !.total_amount_game = Some(TotalOr0(m[4])),
                 !.claimed_amount = Some(0),
                 !.claimed_prize = Some(0)]

\* C19 witness: a registration after an airdrop has been paid has just set
\* the claim counter back to 0, during the claim-airdrop stage.
C19_Witness ==
  /\ res.op = "RegisterMerkleRoots" /\ res.err = ""
  /\ store.claimed_amount = Some(0)
  /\ \E p \in Participants : airdrop_transfers[p] = 1
  /\ InWindow(AirdropStage)

\* The results of every owner-only operation called by `sender`, on every
\* input.
OwnerOnlyResults(sender) ==
  {execute_update_config(sender, new_owner) : new_owner \in NewOwners}
  \cup {execute_register_merkle_roots(sender, m[1], m[2], m[3], m[4]) :
          m \in RegisterInputs}
  \cup {execute_withdraw_airdrop(sender, OwnerAddr),
        execute_withdraw_prize(sender, OwnerAddr)}

\* C20: UpdateConfig, RegisterMerkleRoots, WithdrawAirdrop and WithdrawPrize
\* succeed only when the caller is the owner currently stored in the config
\* and otherwise fail with Unauthorized without changing state; a successful
\* UpdateConfig(new_owner) stores new_owner as the owner, so that from then
\* on new_owner is the authorized caller and the previous owner is not.
C20_AuthorizationFollowsOwner ==
  Instantiated =>
    \A sender \in AdminCallers :
      /\ \A r \in OwnerOnlyResults(sender) :
           /\ r.err = "" => CurrentOwner = Some(sender)
           /\ CurrentOwner /= Some(sender) =>
                r.err = "Unauthorized" /\ r.store = store /\ r.msgs = <<>>
      /\ CurrentOwner = Some(sender) =>
           \A new_owner \in NewOwners :
             LET r == execute_update_config(sender, new_owner)
             IN /\ r.err = ""
                /\ r.store = [store EXCEPT !.config =
                     Some([owner |-> new_owner,
                           cw20_token_address |->
                             Unwrap(store.config).cw20_token_address])]

\* C20 witness: after the ownership moved to another address, a call of an
\* owner-only operation (by the previous owner, the only other caller) has
\* just failed with Unauthorized.
C20_Witness ==
  /\ res.op \in {"UpdateConfig", "RegisterMerkleRoots", "WithdrawAirdrop",
                 "WithdrawPrize"}
  /\ res.err = "Unauthorized"
  /\ Instantiated
  /\ CurrentOwner = Some(Addr1)

Frozen == Instantiated /\ CurrentOwner = None

\* C21: once UpdateConfig has set the owner to absent, the owner stays
\* absent in every later state and every UpdateConfig, RegisterMerkleRoots,
\* WithdrawAirdrop and WithdrawPrize fails with Unauthorized for every
\* caller; the participant operations never fail with Unauthorized and
\* never touch the config.
C21_FrozenIsAbsorbing ==
  /\ [](Frozen =>
          /\ \A sender \in Addrs :
               \A r \in OwnerOnlyResults(sender) :
                 r.err = "Unauthorized" /\ r.store = store /\ r.msgs = <<>>
          /\ \A g \in GatedResults :
               g[3].err /= "Unauthorized" /\ g[3].store.config = store.config)
  /\ [][Frozen => Frozen']_vars

\* C21 witness: with the owner absent, a RegisterMerkleRoots has just been
\* refused.
C21_Witness ==
  /\ Frozen
  /\ res.op = "RegisterMerkleRoots" /\ res.err = "Unauthorized"

\* The claim-prize stage has ended: now >= start + duration.
PrizeStageEnded ==
  /\ PrizeStage.start.kind = PrizeStage.duration.kind
  /\ NowOf(PrizeStage.start) >= PrizeStage.start.at + PrizeStage.duration.len

\* C22: WithdrawAirdrop and WithdrawPrize by the owner fail with
\* ClaimPrizeStageNotFinished at every instant before
\* claim_prize.start + claim_prize.duration and pass the gate from that
\* instant on (succeeding once roots are registered and the claimed amount
\* is within the total); a non-owner gets Unauthorized before and after.
C22_WithdrawalGate ==
  (Instantiated /\ PrizeStage.start.kind = PrizeStage.duration.kind) =>
    \A sender \in AdminCallers :
      \A r \in {execute_withdraw_airdrop(sender, OwnerAddr),
                execute_withdraw_prize(sender, OwnerAddr)} :
        IF CurrentOwner /= Some(sender) THEN r.err = "Unauthorized"
        ELSE IF ~PrizeStageEnded THEN r.err = "ClaimPrizeStageNotFinished"
        ELSE /\ r.err \in {"", "Std:NotFound", "Panic"}
             /\ r.err = "Std:NotFound" => ~Registered
             /\ r.err = "Panic" =>
                  \/ Unwrap(store.claimed_amount) > Committed
                  \/ Unwrap(store.claimed_prize) > Unwrap(store.total_ticket_prize)

\* C22 witness: the owner's WithdrawPrize has just succeeded at the very
\* instant claim_prize.start + claim_prize.duration.
C22_Witness ==
  /\ res.op = "WithdrawPrize" /\ res.err = ""
  /\ PrizeStage.start.kind = PrizeStage.duration.kind
  /\ NowOf(PrizeStage.start) = PrizeStage.start.at + PrizeStage.duration.len

\* C23: a successful WithdrawAirdrop emits exactly one token transfer of
\* total_airdrop_amount + total_airdrop_game_amount - claimed_airdrop_amount
\* to the given address, and a successful WithdrawPrize exactly one native
\* transfer of total_ticket_prize - claimed_prize_amount in the ticket
\* denomination to the given address.
C23_WithdrawalAmount ==
  Instantiated =>
    \A sender \in AdminCallers, address \in Addrs :
      LET a == execute_withdraw_airdrop(sender, address)
          p == execute_withdraw_prize(sender, address)
      IN /\ a.err = "" =>
              a.msgs = << [kind |-> "cw20", to |-> address,
                           asset |-> Unwrap(store.config).cw20_token_address,
                           amount |-> Committed - Unwrap(store.claimed_amount)] >>
         /\ p.err = "" =>
              p.msgs = << [kind |-> "bank", to |-> address,
                           asset |-> TicketPrice.denom,
                           amount |-> Unwrap(store.total_ticket_prize)
                                        - Unwrap(store.claimed_prize)] >>

\* C23 witness: after an airdrop was claimed, a WithdrawAirdrop called by an
\* owner other than the recipient has just sent the recipient the committed
\* total less the claimed amount.
C23_Witness ==
  /\ res.op = "WithdrawAirdrop" /\ res.err = ""
  /\ CurrentOwner = Some(Addr1)
  /\ Unwrap(store.claimed_amount) > 0
  /\ res.msgs = << [kind |-> "cw20", to |-> OwnerAddr, asset |-> TokenAddr,
                    amount |-> Committed - Unwrap(store.claimed_amount)] >>

WithdrawOps == {"WithdrawAirdrop", "WithdrawPrize"}

\* C24: WithdrawAirdrop and WithdrawPrize write no persistent state, so a
\* second withdrawal with no claim in between emits a transfer of the same
\* remainder as the first.
C24_WithdrawalsWriteNothing ==
  /\ [](Instantiated =>
          \A sender \in AdminCallers, address \in Addrs :
            /\ execute_withdraw_airdrop(sender, address).store = store
            /\ execute_withdraw_prize(sender, address).store = store)
  /\ [][(block' = block /\ res'.op \in WithdrawOps) => store' = store]_vars

\* C24 witness: a second WithdrawPrize has just sent the same non-zero
\* remainder as the first: twice the remainder has been sent in all.
C24_Witness ==
  /\ res.op = "WithdrawPrize" /\ res.err = ""
  /\ res.msgs[1].amount > 0
  /\ res.msgs[1].amount =
       Unwrap(store.total_ticket_prize) - Unwrap(store.claimed_prize)
  /\ paid_native = Unwrap(store.claimed_prize) + 2 * res.msgs[1].amount

\* The results of every execute operation on every input.
ExecuteResults ==
  {g[3] : g \in GatedResults}
  \cup UNION {OwnerOnlyResults(sender) : sender \in AdminCallers}

\* The results of Instantiate on every input.
InstantiateResults ==
  {instantiate(OwnerAddr, InstantiateMsg(owner, stages)) :
     owner \in {None, Some(OwnerAddr)}, stages \in StageInputs}

\* A result that is an error has written nothing and carries no message.
ErrorWroteNothing(r) == r.err /= "" => (r.store = store /\ r.msgs = <<>>)

\* C25 as stated: every operation, Instantiate included, raises every error
\* before its first state write.
C25_EveryErrorBeforeFirstWrite ==
  IF Instantiated
  THEN \A r \in ExecuteResults : ErrorWroteNothing(r)
  ELSE \A r \in InstantiateResults : ErrorWroteNothing(r)

\* C25 amended: a call that returns an error leaves the whole persistent
\* state as it was before the call and emits no transfer; every execute
\* operation raises its errors before its first write, while Instantiate
\* has written the contract version when it rejects the stages and relies on
\* the failed call being discarded.
C25_AtomicOnError ==
  /\ [](Instantiated => \A r \in ExecuteResults : ErrorWroteNothing(r))
  /\ [][(block' = block /\ res'.err /= "") => (store' = store /\ res'.msgs = <<>>)]_vars

\* C25 witness: an Instantiate has just been rejected and the store is still
\* empty, the contract version it had written included.
C25_Witness ==
  /\ res.op = "Instantiate" /\ res.err = "BidStartPassed"
  /\ store = EmptyStore
  /\ \E r \in InstantiateResults : r.err = "BidStartPassed" /\ r.store /= store

\* What instantiate fixes: the three stages, the ticket price, the bins bound
\* and the token address of the config.
FixedAtInstantiation(s) ==
  <<s.stage_bid, s.stage_claim_airdrop, s.stage_claim_prize, s.ticket_price,
    s.bins, Unwrap(s.config).cw20_token_address>>

\* C26: the three stages, the ticket price, the bins bound and the token
\* address fixed at instantiation are never changed by any later operation:
\* in every state after instantiation every execute call returns a store
\* with the same six values, every step keeps them, and a successful
\* UpdateConfig changes nothing but the owner field of the config.
C26_FixedAtInstantiation ==
  /\ [](Instantiated =>
          /\ \A r \in ExecuteResults :
               FixedAtInstantiation(r.store) = FixedAtInstantiation(store)
          /\ \A sender \in AdminCallers, new_owner \in NewOwners :
               LET r == execute_update_config(sender, new_owner)
               IN r.err = "" =>
                    r.store = [store EXCEPT !.config =
                                 Some([Unwrap(store.config) EXCEPT
                                         !.owner = new_owner])])
  /\ [][Instantiated =>
          FixedAtInstantiation(store') = FixedAtInstantiation(store)]_vars

\* C26 witness: an UpdateConfig has just handed the ownership to another
\* address, and the six values are still those of the instantiation message.
C26_Witness ==
  /\ res.op = "UpdateConfig" /\ res.err = ""
  /\ Instantiated
  /\ CurrentOwner = Some(Addr1)
  /\ \E stages \in StageInputs :
       LET msg == InstantiateMsg(None, stages)
       IN FixedAtInstantiation(store) =
            <<Some(msg.stage_bid), Some(msg.stage_claim_airdrop),
              Some(msg.stage_claim_prize), Some(msg.ticket_price),
              Some(msg.bins), msg.cw20_token_address>>

\* The hash the verification of execute_claim_airdrop recomputes from the
\* tree's leaf and path.
Recomputed ==
  merkle_fold(Sha256(LeafPreimage(tree.sender, tree.value)), HexPath(tree.path))

\* C27: for a leaf and a sibling path built against a root with sorted-pair
\* hashing, whatever side each sibling was on, verification recomputes
\* exactly that root and accepts; once one element of the path is replaced
\* by a different 32-byte value it rejects; and the empty proof is accepted
\* exactly when the hash of the leaf equals the root.
C27_ProofRoundTrip ==
  /\ ~tree.tampered =>
       /\ Recomputed.err = "" /\ Recomputed.hash = tree.root
       /\ Verifies(tree.sender, tree.value, HexPath(tree.path), Hex(tree.root))
  /\ tree.tampered =>
       ~Verifies(tree.sender, tree.value, HexPath(tree.path), Hex(tree.root))
  /\ Verifies(tree.sender, tree.value, <<>>, Hex(tree.root))
       <=> Sha256(LeafPreimage(tree.sender, tree.value)) = tree.root

\* C27 witness: a tree built with a path of two siblings, the lower one
\* smaller and the upper one greater in byte order than the node it is
\* hashed with; the upper one has been replaced and verification rejects.
C27_Witness ==
  /\ tree.tampered
  /\ Len(tree.path) = 2
  /\ \E lower \in ProofDigests, upper \in ProofDigests :
       LET leaf == Sha256(LeafPreimage(tree.sender, tree.value))
       IN /\ LexLess(lower, leaf)
          /\ LexLess(HashPair(leaf, lower), upper)
          /\ tree.root = HashPair(upper, HashPair(lower, leaf))
          /\ tree.path[1] = lower
          /\ tree.path[2] /= upper
  /\ ~Verifies(tree.sender, tree.value, HexPath(tree.path), Hex(tree.root))

\* The instantiation messages, with and without an owner.
InstantiateMsgs ==
  {InstantiateMsg(owner, stages) :
     owner \in {None, Some(OwnerAddr)}, stages \in StageInputs}
\* A stage whose start and duration are both heights or both times.
SameUnit(stage) == stage.start.kind = stage.duration.kind
\* start + duration of a stage > a start; a height and a time do not compare.
EndsAfter(stage, start) ==
  stage.start.kind = start.kind /\ stage.start.at + stage.duration.len > start.at
BidOverlaps == "StagesOverlap:bid,Claim airdrop"
AirdropOverlaps == "StagesOverlap:claim aidrop,Claim prize"

PrizeRecords == {a \in Addrs : IsSome(store.claim_prize[a])}

\* C29: ClaimPrize never divides by zero: whenever some address has a
\* prize-claim record winners_count is at least 1 (it counts the records),
\* so no ClaimPrize that passes the eligibility check stops on the
\* division, and its two shares are the totals divided by that count.
C29_NoDivisionByZero ==
  Instantiated =>
    /\ Unwrap(store.winners) = Cardinality(PrizeRecords)
    /\ PrizeRecords /= {} => Unwrap(store.winners) >= 1
    /\ \A p \in Addrs :
         LET r == execute_claim_prize(p)
         IN /\ r.err /= "Panic"
            /\ r.err = "" =>
                 /\ p \in PrizeRecords
                 /\ Unwrap(store.winners) >= 1
                 /\ SumMsgs(r.msgs, "bank") * Unwrap(store.winners)
                      <= Unwrap(store.total_ticket_prize)

\* C29 witness: a ClaimPrize has just paid one of two recorded winners.
C29_Witness ==
  /\ res.op = "ClaimPrize" /\ res.err = ""
  /\ Cardinality(PrizeRecords) = 2
  /\ store.winners = Some(2)

\* C30: inside the claim-airdrop stage, with the roots registered and no
\* earlier claim by the caller, a ClaimAirdrop whose proof_airdrop has a
\* malformed element (first or later) fails with the hex-decoding error; so
\* does one whose airdrop proof verifies and whose proof_game is malformed
\* when the caller has a live bid; both record and pay nothing.  When the
\* caller has no live bid a malformed proof_game is not decoded: the claim
\* with a verifying airdrop proof succeeds, is paid and records no winner.
C30_MalformedProofIsAnError ==
  (Instantiated /\ InWindow(AirdropStage) /\ Registered) =>
    \A p \in Senders, amount \in Amounts, pa \in ProofsAirdrop, pg \in ProofsGame :
      LET r == execute_claim_airdrop(p, amount, pa, pg)
          verifies == Verifies(p, amount, pa, Unwrap(store.merkle_root_airdrop))
      IN ~IsSome(store.claim_airdrop[p]) =>
           /\ ~WellFormed(pa) =>
                r.err = "Hex" /\ r.store = store /\ r.msgs = <<>>
           /\ (verifies /\ HasBid(p) /\ ~WellFormed(pg)) =>
                r.err = "Hex" /\ r.store = store /\ r.msgs = <<>>
           /\ (verifies /\ ~HasBid(p) /\ ~WellFormed(pg)) =>
                /\ r.err = ""
                /\ SumMsgs(r.msgs, "cw20") = amount
                /\ r.store.claim_airdrop[p] = Some(TRUE)
                /\ r.store.claim_prize[p] = None
                /\ r.store.winners = store.winners

\* C30 witness: a ClaimAirdrop has just failed on the decoding, at an
\* instant where a participant with a live bid holds a verifying airdrop
\* proof and fails on a malformed game proof, and another one without a bid
\* has been paid although the game proofs include a malformed one.
C30_Witness ==
  /\ res.op = "ClaimAirdrop" /\ res.err = "Hex"
  /\ Instantiated /\ InWindow(AirdropStage) /\ Registered
  /\ \E p \in Senders, amount \in Amounts, pa \in ProofsAirdrop, pg \in ProofsGame :
       /\ HasBid(p) /\ ~IsSome(store.claim_airdrop[p])
       /\ Verifies(p, amount, pa, Unwrap(store.merkle_root_airdrop))
       /\ ~WellFormed(pg)
       /\ execute_claim_airdrop(p, amount, pa, pg).err = "Hex"
  /\ \E q \in Senders :
       /\ ~HasBid(q)
       /\ store.claim_airdrop[q] = Some(TRUE)
       /\ airdrop_transfers[q] = 1

\* total_ticket_prize as a number.
Pool(s) == Unwrap(s.total_ticket_prize)

\* C31: in every state after instantiation total_ticket_prize is the ticket
\* price times the number of live bids, so no RemoveBid stops on the
\* subtraction; it is 0 right after Instantiate, a successful Bid adds one
\* ticket, a successful RemoveBid takes one off, and no other step changes it.
C31_PoolCountsLiveBids ==
  /\ [](Instantiated =>
          /\ Pool(store) = TicketPrice.amount * Cardinality(Bidders)
          /\ \A p \in Addrs : execute_remove_bid(p).err /= "Panic")
  /\ [][/\ (~Instantiated /\ Instantiated') => Pool(store') = 0
        /\ (Instantiated /\ Pool(store') /= Pool(store)) =>
             /\ res'.err = ""
             /\ \/ res'.op = "Bid"
                   /\ Pool(store') = Pool(store) + TicketPrice.amount
                \/ res'.op = "RemoveBid"
                   /\ Pool(store') = Pool(store) - TicketPrice.amount
        /\ (Instantiated /\ store' /= store /\ res'.op = "Bid") =>
             Pool(store') = Pool(store) + TicketPrice.amount
        /\ (Instantiated /\ store' /= store /\ res'.op = "RemoveBid") =>
             Pool(store') = Pool(store) - TicketPrice.amount]_vars

\* C31 witness: with two live bids in the ledger a RemoveBid has just taken
\* one of them out, and the pool holds the one ticket that is left.
C31_Witness ==
  /\ res.op = "RemoveBid" /\ res.err = ""
  /\ Cardinality(Bidders) = 1
  /\ Pool(store) = TicketPrice.amount
  /\ \E p \in Participants : ~HasBid(p) /\ SumMsgs(res.msgs, "bank") = TicketPrice.amount

\* C32: in every state after instantiation winners_count is the number of
\* participants with a prize-claim record, and every participant with a
\* prize-claim record also has an airdrop-claim record and a live bid.
C32_WinnersAreRecordedBidders ==
  Instantiated =>
    /\ Unwrap(store.winners) = Cardinality(PrizeRecords)
    /\ \A p \in PrizeRecords :
         /\ IsSome(store.claim_airdrop[p])
         /\ HasBid(p)

\* The bid stage has ended: now >= bid.start + bid.duration.
BidEnded ==
  Instantiated /\ NowOf(BidStage.start) >= BidStage.start.at + BidStage.duration.len
\* The calls that read the bid ledger or the pool to pay: ClaimAirdrop by a
\* participant with a live bid (the bin decides the win) and ClaimPrize.
LedgerReaders ==
  {execute_claim_airdrop(p, amount, pa, pg) :
     p \in {q \in Senders : HasBid(q)}, amount \in Amounts,
     pa \in ProofsAirdrop, pg \in ProofsGame}
  \cup {execute_claim_prize(p) : p \in Senders}

\* C33: once the bid stage has ended no operation changes the bid ledger or
\* total_ticket_prize, and the bin that decides a win in ClaimAirdrop and the
\* pool divided in ClaimPrize are the final values of the bid stage: these
\* calls succeed only after the bid stage has ended.
C33_BidLedgerFinal ==
  Instantiated =>
    /\ BidEnded =>
         \A r \in ExecuteResults :
           /\ r.store.bids = store.bids
           /\ r.store.total_ticket_prize = store.total_ticket_prize
    /\ \A r \in LedgerReaders : r.err = "" => BidEnded

\* C34: throughout the claim-prize stage no call changes total_ticket_prize
\* or winners_count, so that the native amount a ClaimPrize emits is the
\* amount every other successful ClaimPrize of the run emits: the one the
\* last ClaimPrize emitted is the one the next would emit.
C34_EqualNativeShares ==
  (Instantiated /\ InWindow(PrizeStage)) =>
    /\ \A r \in ExecuteResults :
         r.err = "" =>
           /\ r.store.winners = store.winners
           /\ r.store.total_ticket_prize = store.total_ticket_prize
    /\ (res.op = "ClaimPrize" /\ res.err = "") =>
         \A p \in Senders :
           LET r == execute_claim_prize(p)
           IN r.err = "" => SumMsgs(r.msgs, "bank") = SumMsgs(res.msgs, "bank")

\* C35: from the end of the claim-prize stage on, the instant from which the
\* withdrawals pass their gate, no Bid, ChangeBid, RemoveBid, ClaimAirdrop or
\* ClaimPrize succeeds; a ClaimPrize and a withdrawal never both succeed in
\* one state, and no participant operation changes the claimed counters.
C35_NoParticipantCallAfterPrizeStage ==
  Instantiated =>
    /\ PrizeStageEnded =>
         \A g \in GatedResults :
           /\ g[3].err /= ""
           /\ g[3].store.claimed_amount = store.claimed_amount
           /\ g[3].store.claimed_prize = store.claimed_prize
    /\ \A p \in Senders, sender \in AdminCallers :
         execute_claim_prize(p).err = "" =>
           /\ execute_withdraw_prize(sender, OwnerAddr).err /= ""
           /\ execute_withdraw_airdrop(sender, OwnerAddr).err /= ""

\* The part of the store RegisterMerkleRoots leaves alone: everything but
\* the two roots, the two committed totals and the two claimed counters.
OutsideRegistration(s) ==
  [s EXCEPT !.merkle_root_airdrop = None, !.merkle_root_game = None,
            !.total_amount_airdrop = None, !.total_amount_game = None,
            !.claimed_amount = None, !.claimed_prize = None]

\* C36: a successful RegisterMerkleRoots changes only the two roots, the two
\* committed totals and the two claimed counters; the bid ledger,
\* total_ticket_prize, winners_count and every airdrop-claim and prize-claim
\* record stay as they were.  So right after a registration a participant
\* who had claimed still gets AlreadyClaimed inside the claim-airdrop stage,
\* and a recorded, unpaid winner is still paid inside the claim-prize stage.
C36_RegistrationFrame ==
  /\ [](Instantiated =>
          \A sender \in AdminCallers, m \in RegisterInputs :
            LET r == execute_register_merkle_roots(sender, m[1], m[2], m[3], m[4])
            IN OutsideRegistration(r.store) = OutsideRegistration(store))
  /\ []((Instantiated /\ res.op = "RegisterMerkleRoots" /\ res.err = "") =>
          \A p \in Senders :
            /\ (InWindow(AirdropStage) /\ IsSome(store.claim_airdrop[p])) =>
                 \A amount \in Amounts, pa \in ProofsAirdrop, pg \in ProofsGame :
                   execute_claim_airdrop(p, amount, pa, pg).err = "AlreadyClaimed"
            /\ (InWindow(PrizeStage) /\ store.claim_prize[p] = Some(FALSE)) =>
                 execute_claim_prize(p).err = "")
  /\ [][Succeeds("RegisterMerkleRoots") =>
          OutsideRegistration(store') = OutsideRegistration(store)]_vars

\* C36 witness: a registration has just reset the claimed counter after a
\* participant with a live bid had claimed the airdrop and been recorded as
\* a winner; the records and the count are still there.
C36_Witness ==
  /\ res.op = "RegisterMerkleRoots" /\ res.err = ""
  /\ store.claimed_amount = Some(0)
  /\ store.winners = Some(1)
  /\ \E p \in Participants :
       /\ HasBid(p)
       /\ store.claim_airdrop[p] = Some(TRUE)
       /\ store.claim_prize[p] = Some(FALSE)

\* C37: until a RegisterMerkleRoots has succeeded the roots are absent, and
\* every ClaimAirdrop fails and leaves the store as it is (inside the stage
\* because the roots cannot be loaded); no airdrop has been paid, no
\* airdrop-claim or prize-claim record exists, winners_count is 0 and no
\* ClaimPrize succeeds.  The roots appear only in a successful
\* RegisterMerkleRoots and never disappear.
C37_NoClaimBeforeRegistration ==
  /\ []((Instantiated /\ ~Registered) =>
          /\ \A p \in Senders, amount \in Amounts, pa \in ProofsAirdrop, pg \in ProofsGame :
               LET r == execute_claim_airdrop(p, amount, pa, pg)
               IN /\ r.err /= "" /\ r.store = store /\ r.msgs = <<>>
                  /\ InWindow(AirdropStage) => r.err = "Std:NotFound"
          /\ \A a \in Addrs :
               /\ store.claim_airdrop[a] = None
               /\ store.claim_prize[a] = None
               /\ airdrop_transfers[a] = 0
               /\ prize_transfers[a] = 0
               /\ execute_claim_prize(a).err /= ""
          /\ store.winners = Some(0))
  /\ [][/\ (Instantiated /\ ~Registered /\ Registered') =>
             Succeeds("RegisterMerkleRoots")
        /\ Registered => Registered']_vars

\* C37 witness: inside the claim-airdrop stage, with no root registered, a
\* ClaimAirdrop has just failed on loading the roots.
C37_Witness ==
  /\ res.op = "ClaimAirdrop" /\ res.err = "Std:NotFound"
  /\ Instantiated /\ ~Registered
  /\ InWindow(AirdropStage)

\* The responses of the five participant operations when p calls them.
ParticipantResults(p) ==
  {execute_bid(p, funds, bin) : funds \in FundsInputs, bin \in BinInputs}
  \cup {execute_change_bid(p, bin) : bin \in BinInputs}
  \cup {execute_remove_bid(p)}
  \cup {execute_claim_airdrop(p, amount, pa, pg) :
          amount \in Amounts, pa \in ProofsAirdrop, pg \in ProofsGame}
  \cup {execute_claim_prize(p)}
\* The bid, the airdrop-claim record and the prize-claim record of q.
RecordsOf(s, q) == <<s.bids[q], s.claim_airdrop[q], s.claim_prize[q]>>
ParticipantOps == {"Bid", "ChangeBid", "RemoveBid", "ClaimAirdrop", "ClaimPrize"}

\* C38: a Bid, ChangeBid, RemoveBid, ClaimAirdrop or ClaimPrize called by
\* p leaves the bid, the airdrop-claim record and the prize-claim record of
\* every other address as they were, and every transfer it emits goes to p.
C38_ParticipantIsolation ==
  /\ [](Instantiated =>
          \A p \in Senders :
            \A r \in ParticipantResults(p) :
              /\ \A q \in Addrs \ {p} : RecordsOf(r.store, q) = RecordsOf(store, q)
              /\ \A i \in 1..Len(r.msgs) : r.msgs[i].to = p)
  /\ [][(Instantiated /\ block' = block /\ res'.op \in ParticipantOps) =>
          /\ Cardinality({q \in Addrs : RecordsOf(store', q) /= RecordsOf(store, q)}) <= 1
          /\ \A q \in Addrs :
               (res'.msgs /= <<>> /\ q /= res'.msgs[1].to) =>
                 RecordsOf(store', q) = RecordsOf(store, q)
          /\ \A i \in 1..Len(res'.msgs) : res'.msgs[i].to = res'.msgs[1].to]_vars

\* C38 witness: a winner has just been paid the prize while the other
\* participant holds a bid, an airdrop-claim record and an unpaid prize
\* record.
C38_Witness ==
  /\ res.op = "ClaimPrize" /\ res.err = ""
  /\ \E q \in Participants \ {res.msgs[1].to} :
       RecordsOf(store, q) = <<Some(Bins), Some(TRUE), Some(FALSE)>>

\* C39: an airdrop-claim record, once there, is never removed or changed; a
\* prize-claim record only moves from absent to unpaid, in a successful
\* ClaimAirdrop of that participant, and from unpaid to paid, in a
\* successful ClaimPrize of that participant, and never back.
C39_ClaimRecordsMonotone ==
  [][\A a \in Addrs :
       /\ IsSome(store.claim_airdrop[a]) =>
            store'.claim_airdrop[a] = store.claim_airdrop[a]
       /\ store'.claim_airdrop[a] /= store.claim_airdrop[a] =>
            /\ store'.claim_airdrop[a] = Some(TRUE)
            /\ Succeeds("ClaimAirdrop") /\ res'.msgs[1].to = a
       /\ store'.claim_prize[a] /= store.claim_prize[a] =>
            \/ /\ store.claim_prize[a] = None
               /\ store'.claim_prize[a] = Some(FALSE)
               /\ Succeeds("ClaimAirdrop") /\ res'.msgs[1].to = a
            \/ /\ store.claim_prize[a] = Some(FALSE)
               /\ store'.claim_prize[a] = Some(TRUE)
               /\ Succeeds("ClaimPrize") /\ res'.msgs[1].to = a]_vars

\* C39 witness: a winner who has been paid the prize has just removed the
\* bid, the bid stage running on beside the claim stages; both records of
\* the winner are still there.
C39_Witness ==
  /\ res.op = "RemoveBid" /\ res.err = ""
  /\ LET p == res.msgs[1].to
     IN /\ store.claim_airdrop[p] = Some(TRUE)
        /\ store.claim_prize[p] = Some(TRUE)
        /\ ~HasBid(p)

\* The (participant, amount) pairs the airdrop tree was built for and the
\* (participant, bin) pairs the game tree was built for.
AirdropEntitlements == {<<Addr1, 12>>, <<Addr2, 5>>}
GameEntitlements == {<<Addr1, Bins>>, <<Addr2, Bins>>}
\* The amounts and bins a leaf can be built from in this model.
LeafValues == 0..12

\* C40: two different (participant, amount) pairs never have the same
\* airdrop leaf preimage and two different (participant, bin) pairs never
\* have the same game leaf preimage, so that with the roots of the two trees
\* registered a ClaimAirdrop is paid only for a pair the airdrop tree was
\* built for and records a winner only for a pair the game tree was built
\* for.
C40_LeafEncodingUnambiguous ==
  /\ \A p \in Addrs, q \in Addrs, v \in LeafValues, w \in LeafValues :
       <<p, v>> /= <<q, w>> => LeafPreimage(p, v) /= LeafPreimage(q, w)
  /\ (Instantiated /\ Registered
        /\ store.merkle_root_airdrop = Some(Hex(AirdropRoot))
        /\ store.merkle_root_game = Some(Hex(GameRoot))) =>
       \A p \in Senders, amount \in Amounts, pa \in ProofsAirdrop, pg \in ProofsGame :
         LET r == execute_claim_airdrop(p, amount, pa, pg)
         IN r.err = "" =>
              /\ <<p, amount>> \in AirdropEntitlements
              /\ r.store.claim_prize[p] /= store.claim_prize[p] =>
                   <<p, Unwrap(store.bids[p])>> \in GameEntitlements

====
